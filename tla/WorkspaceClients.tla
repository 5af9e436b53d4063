-------------------------- MODULE WorkspaceClients --------------------------
(***************************************************************************)
(* The hosts the agent's clients talk to (internal/kcp, main.go).          *)
(*                                                                         *)
(* kcp serves each workspace under <server>/clusters/<name or path>.  The  *)
(* kubeconfig may point at the server or into some workspace.  From its    *)
(* host the agent derives one client for the workspace with the            *)
(* InitTargets, and from the host without a workspace a client for every   *)
(* workspace it meets: that of a WorkspaceType, by the reference of a      *)
(* target, that of a multicluster manager and that of the templates.       *)
(*                                                                         *)
(* A host is the sequence of its path segments: a trailing slash is an     *)
(* blank last one.                                                         *)
(***************************************************************************)
EXTENDS Naturals, Sequences, FiniteSets

CONSTANTS
    Segment,          \* what may stand between two slashes of a host
    Cluster,          \* logical clusters
    Path,             \* workspace paths
    ResolvedTo,       \* kcp: the logical cluster of a path
    KubeconfigHost,   \* hosts the kubeconfig may have
    ConfigWorkspace,  \* values of --config-workspace
    MaxTargets,       \* bound: InitTargets read
    Empty,            \* an omitted workspaceTypeRef.path
    Nowhere           \* not the host of a single workspace

Blank == "blank"  \* the empty segment
Ref == Cluster \cup Path

\* A kubeconfig's host is the server, behind any path, and possibly a workspace of
\* it and slashes.  A path of one name may be the logical cluster of that name.
ASSUME HostsAssumption ==
    /\ Ref \subseteq Segment \ {Blank, "clusters"} /\ "clusters" \in Segment
    /\ ResolvedTo \in [Path -> Cluster]
    /\ \A both \in Cluster \cap Path : ResolvedTo[both] = both
    /\ ConfigWorkspace \subseteq Ref
    /\ Empty \notin Ref /\ Nowhere \notin Ref
    /\ KubeconfigHost \subseteq Seq(Segment)
    /\ \A host \in KubeconfigHost : \A k \in 1..Len(host) : host[k] = "clusters" =>
        /\ k < Len(host) /\ host[k + 1] \notin {Blank, "clusters"}
        /\ \A j \in k + 2..Len(host) : host[j] = Blank

VARIABLES
    kubeconfig,  \* host of the kubeconfig
    base,        \* host of the config the clusterClient keeps
    configws,    \* --config-workspace
    targets,     \* InitTargets read: their cluster and workspaceTypeRef.path
    types,       \* clusters of the WorkspaceTypes read
    clients      \* every client made: its host and the cluster it is for

vars == <<kubeconfig, base, configws, targets, types, clients>>
-----------------------------------------------------------------------------
(* Hosts                                                                   *)

Resolve(ref) == IF ref \in Path THEN ResolvedTo[ref] ELSE ref

In(host, ref) == host \o <<"clusters", ref>>

\* clusterFinder: /clusters/([^/]+)$
FindsCluster(host) ==
    /\ Len(host) >= 2
    /\ host[Len(host) - 1] = "clusters" /\ host[Len(host)] # Blank

\* strings.TrimRight(host, "/")
TrimRight(host) ==
    LET kept == {n \in 0..Len(host) : \A k \in n+1..Len(host) : host[k] = Blank}
    IN SubSeq(host, 1, CHOOSE n \in kept : \A m \in kept : n <= m)

\* Mutant: the host as it is.
Bug_StripCluster(host) == TrimRight(host)
StripCluster(host) ==
    TrimRight(IF FindsCluster(host) THEN SubSeq(host, 1, Len(host) - 2) ELSE host)

RetargetRestConfig(host, ref) == In(StripCluster(host), ref)

ClusterConfig(ref) == In(base, ref)

\* What a call leaves in the config the clusterClient keeps: it works on a copy.
\* Mutant: it appends to the shared config.
Bug_AfterClusterConfig(ref) == In(base, ref)
AfterClusterConfig(ref) == base

\* The workspace whose API a host serves: whatever else follows the first
\* /clusters/<ref> is taken for the path of a resource.
Addressed(host) ==
    LET trimmed == TrimRight(host)
    IN IF {k \in DOMAIN host : host[k] = "clusters"} = {Len(trimmed) - 1}
       THEN Resolve(trimmed[Len(trimmed)]) ELSE Nowhere
-----------------------------------------------------------------------------
(* The process                                                             *)

Client(purpose, for, host) == [purpose |-> purpose, for |-> for, host |-> host]

Init ==
    /\ kubeconfig \in KubeconfigHost
    /\ configws \in ConfigWorkspace
    /\ base = <<>>
    /\ targets = {} /\ types = {} /\ clients = {}

Started == clients # {}

\* run and setupManager: both derive their host from the kubeconfig's.
Run ==
    /\ ~Started
    /\ base' = StripCluster(kubeconfig)
    /\ clients' = {Client("local", Resolve(configws),
                          RetargetRestConfig(kubeconfig, configws))}
    /\ UNCHANGED <<kubeconfig, configws, targets, types>>

\* The local client reads the targets of the workspace its host addresses.
ReadTarget(path) ==
    /\ Cardinality(targets) < MaxTargets
    /\ \E c \in clients :
        /\ c.purpose = "local" /\ Addressed(c.host) # Nowhere
        /\ targets' = targets \cup {[cluster |-> Addressed(c.host), path |-> path]}
    /\ UNCHANGED <<kubeconfig, base, configws, types, clients>>

MakeClient(purpose, for, ref) ==
    /\ clients' = clients \cup {Client(purpose, for, ClusterConfig(ref))}
    /\ base' = AfterClusterConfig(ref)

\* A workspaceTypeRef without a path is in the target's own workspace.
wstCluster(target) == IF target.path = Empty THEN target.cluster ELSE target.path

\* What the client then reads comes from the workspace it addresses.
GetWorkspaceType(target) ==
    /\ target \in targets
    /\ MakeClient("type", IF target.path = Empty THEN target.cluster
                          ELSE Resolve(target.path), wstCluster(target))
    /\ types' = types \cup ({Addressed(ClusterConfig(wstCluster(target)))} \ {Nowhere})
    /\ UNCHANGED <<kubeconfig, configws, targets>>

\* The manager's config and that of its provider: the type's own cluster.
CreateMulticlusterManager(type) ==
    /\ type \in types
    /\ MakeClient("manager", type, type)
    /\ UNCHANGED <<kubeconfig, configws, targets, types>>

\* A source's templates are read from the workspace of its target.
NewInitTemplate(target) ==
    /\ target \in targets
    /\ MakeClient("template", Resolve(configws), target.cluster)
    /\ UNCHANGED <<kubeconfig, configws, targets, types>>

Next ==
    \/ Run
    \/ \E path \in Ref \cup {Empty} : ReadTarget(path)
    \/ \E target \in targets : GetWorkspaceType(target) \/ NewInitTemplate(target)
    \/ \E type \in types : CreateMulticlusterManager(type)

Spec == Init /\ [][Next]_vars
-----------------------------------------------------------------------------
(* Properties                                                              *)

\* A workspace with slashes behind it: StripCluster looks for the cluster before
\* it trims them, and leaves both where they are.
SlashAfterCluster(host) == ~FindsCluster(host) /\ FindsCluster(TrimRight(host))

\* Every client, the first as the hundredth, addresses the one workspace it
\* is for - the WorkspaceType's that a target references, or the target's own
\* when the reference has no path - wherever the kubeconfig points, with this one
\* exception (rest.go:30-42, clusterclient.go:44-49, controller.go:198-224).
ClientsAddressTheirWorkspace ==
    ~SlashAfterCluster(kubeconfig) => \A c \in clients : Addressed(c.host) = c.for
=============================================================================
