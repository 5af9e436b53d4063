-------------------------- MODULE TemplatesProofs --------------------------
(***************************************************************************)
(* Proofs about WorkspaceClients and Templates: for any number of          *)
(* workspaces, clients and workers and any host a kubeconfig may have,     *)
(* every client addresses the workspace it is for, and every rendering is  *)
(* that of the template as it was parsed, for the workspace it is for.     *)
(***************************************************************************)
EXTENDS Templates, SequenceTheorems, WellFoundedInduction, TLAPS

(***************************************************************************)
(* Hosts                                                                   *)
(***************************************************************************)

\* A set of naturals has a least element.
LEMMA Least ==
    ASSUME NEW S, S \subseteq Nat, S # {}
    PROVE  \E n \in S : \A m \in S : n <= m
<1>. DEFINE Less == {pair \in Nat \X Nat : pair[1] < pair[2]}
<1>1. IsWellFoundedOn(Less, Nat)
  BY NatLessThanWellFounded DEF OpToRel
<1>. HIDE DEF Less
<1>2. PICK x \in S : \A y \in S : <<y, x>> \notin Less
  BY <1>1, WFMin, Zenon
<1>3. ASSUME NEW y \in S PROVE x <= y
  <2>1. <<y, x>> \in Nat \X Nat
    BY <1>2
  <2>2. ~(<<y, x>>[1] < <<y, x>>[2])
    BY <2>1, <1>2 DEF Less
  <2>. QED  BY <2>2, <1>2
<1>. QED  BY <1>2, <1>3

\* What TrimRight leaves ends in a segment that is not empty.
LEMMA Trimming ==
    ASSUME NEW host \in Seq(Segment)
    PROVE  \E n \in 0..Len(host) :
               /\ TrimRight(host) = SubSeq(host, 1, n)
               /\ n = 0 \/ host[n] # Blank
               /\ \A k \in n + 1..Len(host) : host[k] = Blank
<1>. DEFINE kept == {n \in 0..Len(host) : \A k \in n + 1..Len(host) : host[k] = Blank}
            first(n) == n \in kept /\ \A m \in kept : n <= m
<1>1. Len(host) \in kept
  OBVIOUS
<1>2. \E n \in kept : \A m \in kept : n <= m
  <2>1. kept \subseteq Nat /\ kept # {}
    BY <1>1
  <2>. HIDE DEF kept
  <2>. QED  BY <2>1, Least
<1>3. PICK n : first(n) /\ n = CHOOSE m \in kept : \A k \in kept : m <= k
  BY <1>2, Zenon
<1>4. n \in 0..Len(host) /\ \A k \in n + 1..Len(host) : host[k] = Blank
  BY <1>3
<1>5. ASSUME n # 0, host[n] = Blank PROVE FALSE
  <2>1. n - 1 \in kept
    BY <1>4, <1>5
  <2>2. n <= n - 1
    BY <1>3, <2>1
  <2>. QED  BY <1>4, <2>2
<1>6. TrimRight(host) = SubSeq(host, 1, n)
  BY <1>3 DEF TrimRight
<1>. QED  BY <1>4, <1>5, <1>6

\* No segment of the host can be taken for the start of a workspace's.
Clean(host) == \A k \in 1..Len(host) : host[k] # "clusters"

\* Behind such a host any workspace is addressed, behind another one none.
LEMMA Addressing ==
    ASSUME HostsAssumption, NEW host \in Seq(Segment), NEW ref \in Ref
    PROVE  /\ Clean(host) => Addressed(In(host, ref)) = Resolve(ref)
           /\ ~Clean(host) => Addressed(In(host, ref)) = Nowhere
<1>. DEFINE h == In(host, ref)
<1>1. /\ h \in Seq(Segment) /\ Len(h) = Len(host) + 2
      /\ \A k \in 1..Len(host) : h[k] = host[k]
      /\ h[Len(host) + 1] = "clusters" /\ h[Len(host) + 2] = ref
      /\ ref # Blank /\ ref # "clusters"
  BY DEF In, HostsAssumption
<1>. HIDE DEF h
<1>2. PICK n \in 0..Len(h) :
          /\ TrimRight(h) = SubSeq(h, 1, n)
          /\ n = 0 \/ h[n] # Blank
          /\ \A k \in n + 1..Len(h) : h[k] = Blank
  BY <1>1, Trimming
<1>3. n = Len(h)
  BY <1>1, <1>2
<1>4. TrimRight(h) = h
  BY <1>1, <1>2, <1>3
<1>5. h[Len(h)] = ref /\ Len(h) - 1 = Len(host) + 1
  BY <1>1
<1>. DEFINE marks == {k \in DOMAIN h : h[k] = "clusters"}
<1>6. Clean(host) => marks = {Len(host) + 1}
  BY <1>1 DEF Clean
<1>7. ~Clean(host) => marks # {Len(host) + 1}
  <2>1. SUFFICES ASSUME NEW k \in 1..Len(host), host[k] = "clusters"
                 PROVE  marks # {Len(host) + 1}
    BY DEF Clean
  <2>2. k \in marks /\ k # Len(host) + 1
    BY <1>1, <2>1
  <2>. QED  BY <2>2
<1>8. Addressed(h) = IF marks = {Len(h) - 1} THEN Resolve(h[Len(h)]) ELSE Nowhere
  BY <1>4 DEF Addressed
<1>. QED  BY <1>5, <1>6, <1>7, <1>8 DEF h

\* Stripping a kubeconfig's host leaves a host with no workspace, unless slashes
\* follow the workspace.
LEMMA Stripping ==
    ASSUME HostsAssumption, NEW host \in KubeconfigHost
    PROVE  /\ StripCluster(host) \in Seq(Segment)
           /\ ~SlashAfterCluster(host) => Clean(StripCluster(host))
<1>1. /\ host \in Seq(Segment)
      /\ \A k \in 1..Len(host) : host[k] = "clusters" =>
             /\ k < Len(host) /\ host[k + 1] # Blank /\ host[k + 1] # "clusters"
             /\ \A j \in k + 2..Len(host) : host[j] = Blank
  BY DEF HostsAssumption
<1>. DEFINE front == SubSeq(host, 1, Len(host) - 2)
<1>2. CASE FindsCluster(host)
  <2>1. /\ Len(host) >= 2 /\ host[Len(host) - 1] = "clusters"
    BY <1>2 DEF FindsCluster
  <2>2. /\ front \in Seq(Segment) /\ Len(front) = Len(host) - 2
        /\ \A k \in 1..Len(front) : front[k] = host[k]
    <3>1. Len(host) \in Nat
      BY <1>1
    <3>2. Len(host) - 2 \in 0..Len(host)
      BY <2>1, <3>1
    <3>3. PICK n : n \in 0..Len(host) /\ n = Len(host) - 2
      BY <3>2, Zenon
    <3>. QED  BY <1>1, <3>3
  <2>3. Clean(front)
    <3>1. SUFFICES ASSUME NEW k \in 1..Len(front), host[k] = "clusters" PROVE FALSE
      BY <2>2 DEF Clean
    <3>2. k \in 1..Len(host) /\ k <= Len(host) - 2
      BY <2>2, <1>1
    <3>3. /\ host[k + 1] # "clusters"
          /\ \A j \in k + 2..Len(host) : host[j] = Blank
      BY <1>1, <3>1, <3>2
    <3>. QED  BY <2>1, <3>2, <3>3, <1>1
  <2>. HIDE DEF front
  <2>4. PICK n \in 0..Len(front) : TrimRight(front) = SubSeq(front, 1, n)
    BY <2>2, Trimming
  <2>5. StripCluster(host) = SubSeq(front, 1, n)
    BY <1>2, <2>4 DEF StripCluster, front
  <2>. QED  BY <2>2, <2>3, <2>4, <2>5 DEF Clean
<1>3. CASE ~FindsCluster(host)
  <2>1. PICK n \in 0..Len(host) :
            /\ TrimRight(host) = SubSeq(host, 1, n)
            /\ n = 0 \/ host[n] # Blank
            /\ \A k \in n + 1..Len(host) : host[k] = Blank
    BY <1>1, Trimming
  <2>. DEFINE trimmed == SubSeq(host, 1, n)
  <2>2. /\ trimmed \in Seq(Segment) /\ Len(trimmed) = n
        /\ \A k \in 1..n : trimmed[k] = host[k]
    BY <1>1, <2>1
  <2>3. StripCluster(host) = trimmed
    BY <1>3, <2>1 DEF StripCluster
  <2>. HIDE DEF trimmed
  <2>4. ASSUME ~Clean(trimmed) PROVE SlashAfterCluster(host)
    <3>1. PICK k \in 1..n : host[k] = "clusters"
      BY <2>4, <2>2 DEF Clean
    <3>2. /\ k < Len(host) /\ host[k + 1] # Blank
          /\ \A j \in k + 2..Len(host) : host[j] = Blank
      BY <1>1, <2>1, <3>1
    <3>3. n = k + 1
      BY <1>1, <2>1, <3>1, <3>2
    <3>4. FindsCluster(trimmed)
      BY <2>1, <2>2, <3>1, <3>2, <3>3 DEF FindsCluster
    <3>. QED  BY <1>3, <2>1, <3>4 DEF SlashAfterCluster, trimmed
  <2>. QED  BY <2>2, <2>3, <2>4
<1>. QED  BY <1>2, <1>3

(***************************************************************************)
(* WorkspaceClients                                                        *)
(***************************************************************************)

\* What the process has read names logical clusters; a target lies in the
\* workspace that the flag names.
ReadTyped ==
    /\ kubeconfig \in KubeconfigHost /\ configws \in ConfigWorkspace
    /\ \A t \in targets :
        t.cluster = Resolve(configws) /\ t.path \in Ref \cup {Empty}
    /\ types \subseteq Cluster

\* The host kept has no workspace, as long as the kubeconfig's is not one with
\* slashes behind it.
BaseStripped ==
    /\ base \in Seq(Segment)
    /\ ~SlashAfterCluster(kubeconfig) => Clean(base)

\* Each client has the kept host with the reference it was made with.
ClientsDerived ==
    \A c \in clients :
        /\ \E ref \in Ref : c.host = In(base, ref) /\ c.for = Resolve(ref)
        /\ c.purpose = "local" => c.for = Resolve(configws)

HostsInv == ReadTyped /\ BaseStripped /\ ClientsDerived

\* A workspace resolves to its logical cluster, and that one to itself.
LEMMA Resolving ==
    ASSUME HostsAssumption
    PROVE  /\ \A ref \in Ref : Resolve(ref) \in Cluster
           /\ \A cluster \in Cluster : Resolve(cluster) = cluster
           /\ Cluster \subseteq Ref
BY DEF HostsAssumption, Resolve, Ref

\* A client reads from the workspace it is for, or from none.
LEMMA AddressedIsFor ==
    ASSUME HostsAssumption, HostsInv, NEW c \in clients
    PROVE  /\ Addressed(c.host) \in {c.for, Nowhere}
           /\ ~SlashAfterCluster(kubeconfig) => Addressed(c.host) = c.for
<1>1. PICK ref \in Ref : c.host = In(base, ref) /\ c.for = Resolve(ref)
  BY DEF HostsInv, ClientsDerived
<1>. QED  BY <1>1, Addressing DEF HostsInv, BaseStripped

\* At the start there is no client.
LEMMA HostsInit == ASSUME HostsAssumption, Init PROVE HostsInv
BY DEF Init, HostsInv, HostsAssumption, ReadTyped, BaseStripped, ClientsDerived, Clean

\* The first client and the kept host are derived from the kubeconfig.
LEMMA RunStep == ASSUME HostsAssumption, HostsInv, Run PROVE HostsInv'
<1>1. /\ base' = StripCluster(kubeconfig) /\ clients = {}
      /\ clients' = {Client("local", Resolve(configws), In(base', configws))}
      /\ UNCHANGED <<kubeconfig, configws, targets, types>>
  BY DEF Run, Started, RetargetRestConfig
<1>2. ReadTyped'
  BY <1>1 DEF HostsInv, ReadTyped
<1>3. BaseStripped'
  BY <1>1, Stripping DEF HostsInv, ReadTyped, BaseStripped
<1>4. ClientsDerived'
  BY <1>1 DEF HostsInv, ReadTyped, ClientsDerived, Client, HostsAssumption
<1>. QED  BY <1>2, <1>3, <1>4 DEF HostsInv

\* The local client reads targets of the workspace it is for.
LEMMA ReadTargetStep ==
    ASSUME HostsAssumption, HostsInv, NEW path \in Ref \cup {Empty}, ReadTarget(path)
    PROVE  HostsInv'
<1>1. PICK c \in clients :
          /\ c.purpose = "local" /\ Addressed(c.host) # Nowhere
          /\ targets' = targets \cup {[cluster |-> Addressed(c.host), path |-> path]}
  BY DEF ReadTarget
<1>2. UNCHANGED <<kubeconfig, base, configws, types, clients>>
  BY DEF ReadTarget
<1>3. Addressed(c.host) = Resolve(configws)
  BY <1>1, AddressedIsFor DEF HostsInv, ClientsDerived
<1>4. ReadTyped'
  BY <1>1, <1>2, <1>3 DEF HostsInv, ReadTyped
<1>5. BaseStripped' /\ ClientsDerived'
  BY <1>2 DEF HostsInv, BaseStripped, ClientsDerived
<1>. QED  BY <1>4, <1>5 DEF HostsInv

\* A client made from the kept host keeps the invariant about the clients.
LEMMA MakeClientStep ==
    ASSUME HostsInv, NEW purpose, NEW ref \in Ref, purpose # "local",
           MakeClient(purpose, Resolve(ref), ref),
           UNCHANGED <<kubeconfig, configws>>
    PROVE  BaseStripped' /\ ClientsDerived'
<1>1. base' = base /\ clients' = clients \cup {Client(purpose, Resolve(ref), In(base, ref))}
  BY DEF MakeClient, AfterClusterConfig, ClusterConfig
<1>2. BaseStripped'
  BY <1>1 DEF HostsInv, BaseStripped
<1>3. ClientsDerived'
  BY <1>1 DEF HostsInv, ClientsDerived, Client
<1>. QED  BY <1>2, <1>3

\* A client for the cluster of a WorkspaceType, which is then read there.
LEMMA GetWorkspaceTypeStep ==
    ASSUME HostsAssumption, HostsInv, NEW target \in targets, GetWorkspaceType(target)
    PROVE  HostsInv'
<1>. DEFINE ref == wstCluster(target)
<1>1. target.cluster \in Cluster /\ target.path \in Ref \cup {Empty}
  BY Resolving DEF HostsInv, ReadTyped, HostsAssumption
<1>2. /\ ref \in Ref
      /\ Resolve(ref) = IF target.path = Empty THEN target.cluster ELSE Resolve(target.path)
  BY <1>1, Resolving DEF wstCluster
<1>3. /\ MakeClient("type", Resolve(ref), ref)
      /\ types' = types \cup ({Addressed(In(base, ref))} \ {Nowhere})
      /\ UNCHANGED <<kubeconfig, configws, targets>>
  BY <1>2 DEF GetWorkspaceType, ClusterConfig
<1>. HIDE DEF ref
<1>4. Addressed(In(base, ref)) \in Cluster \cup {Nowhere}
  BY <1>2, Addressing, Resolving DEF HostsInv, BaseStripped
<1>5. ReadTyped'
  BY <1>3, <1>4 DEF HostsInv, ReadTyped
<1>6. BaseStripped' /\ ClientsDerived'
  BY <1>2, <1>3, MakeClientStep
<1>. QED  BY <1>5, <1>6 DEF HostsInv

\* A client for the cluster of a type that was read.
LEMMA CreateManagerStep ==
    ASSUME HostsAssumption, HostsInv, NEW type \in types, CreateMulticlusterManager(type)
    PROVE  HostsInv'
<1>1. type \in Ref /\ Resolve(type) = type
  BY Resolving DEF HostsInv, ReadTyped
<1>2. /\ MakeClient("manager", Resolve(type), type)
      /\ UNCHANGED <<kubeconfig, configws, targets, types>>
  BY <1>1 DEF CreateMulticlusterManager
<1>3. ReadTyped'
  BY <1>2 DEF HostsInv, ReadTyped
<1>4. BaseStripped' /\ ClientsDerived'
  BY <1>1, <1>2, MakeClientStep
<1>. QED  BY <1>3, <1>4 DEF HostsInv

\* A client for the workspace of a target.
LEMMA NewInitTemplateStep ==
    ASSUME HostsAssumption, HostsInv, NEW target \in targets, NewInitTemplate(target)
    PROVE  HostsInv'
<1>1. target.cluster \in Ref /\ Resolve(target.cluster) = Resolve(configws)
  BY Resolving DEF HostsInv, ReadTyped, HostsAssumption
<1>2. /\ MakeClient("template", Resolve(target.cluster), target.cluster)
      /\ UNCHANGED <<kubeconfig, configws, targets, types>>
  BY <1>1 DEF NewInitTemplate
<1>3. ReadTyped'
  BY <1>2 DEF HostsInv, ReadTyped
<1>4. BaseStripped' /\ ClientsDerived'
  BY <1>1, <1>2, MakeClientStep
<1>. QED  BY <1>3, <1>4 DEF HostsInv

\* Nothing happens to the clients.
LEMMA HostsUnchanged == ASSUME HostsInv, UNCHANGED vars PROVE HostsInv'
BY DEF HostsInv, ReadTyped, BaseStripped, ClientsDerived, vars

\* Every step of WorkspaceClients keeps its invariant.
LEMMA HostsStep == ASSUME HostsAssumption, HostsInv, Next PROVE HostsInv'
BY RunStep, ReadTargetStep, GetWorkspaceTypeStep, CreateManagerStep, NewInitTemplateStep
   DEF Next

\* The invariant says whom each client addresses.
LEMMA HostsInvImplies ==
    ASSUME HostsAssumption, HostsInv PROVE ClientsAddressTheirWorkspace
BY AddressedIsFor DEF ClientsAddressTheirWorkspace

(***************************************************************************)
(* Templates                                                               *)
(***************************************************************************)

\* A worker past reading has the path of the workspace it works for; the
\* template it has parsed is one.
WorkersTyped ==
    /\ DOMAIN workers = Worker
    /\ \A w \in Worker :
        /\ workers[w].pc \in {"read", "parsed"} =>
               workers[w].path = <<"path", workers[w].cluster>>
        /\ workers[w].pc = "read" => workers[w].target \in targets
        /\ workers[w].pc = "parsed" => workers[w].tpl \in Template

\* A rendering is what Execute makes of its template, for its workspace.
RendersExecuted ==
    \A r \in renders :
        /\ r.tpl \in Template
        /\ \E random \in Random :
               r.out = Execute(r.tpl, <<"name", r.cluster>>, <<"path", r.cluster>>, random)

TemplatesInv ==
    /\ HostsInv
    /\ templates \in [Cluster -> Template]
    /\ WorkersTyped
    /\ RendersExecuted

\* At the start nothing is rendered.
LEMMA TemplatesInitInv == ASSUME HostsAssumption, TemplatesInit PROVE TemplatesInv
BY HostsInit DEF TemplatesInit, TemplatesInv, WorkersTyped, RendersExecuted, Idle

\* An annotation changes no rendering there is.
LEMMA AnnotatePathStep ==
    ASSUME TemplatesInv, NEW c, AnnotatePath(c) PROVE TemplatesInv'
BY HostsUnchanged DEF AnnotatePath, TemplatesInv, WorkersTyped, RendersExecuted, vars

\* Nor does an edit: a worker has parsed what it has read.
LEMMA EditTemplateStep ==
    ASSUME TemplatesInv, NEW ws \in Cluster, NEW tpl \in Template, EditTemplate(ws, tpl)
    PROVE  TemplatesInv'
BY HostsUnchanged DEF EditTemplate, TemplatesInv, WorkersTyped, RendersExecuted, vars

\* Steps of WorkspaceClients alone.
LEMMA ClientStep ==
    ASSUME HostsAssumption, TemplatesInv, Next, UNCHANGED templateVars
    PROVE  TemplatesInv'
<1>1. HostsInv'
  BY HostsStep DEF TemplatesInv
<1>2. targets \subseteq targets'
  BY DEF Next, Run, ReadTarget, GetWorkspaceType, CreateMulticlusterManager, NewInitTemplate
<1>. QED  BY <1>1, <1>2 DEF TemplatesInv, WorkersTyped, RendersExecuted, templateVars

\* A pass begins with the path that the workspace has, or panics.
LEMMA PassStep ==
    ASSUME TemplatesInv, NEW w \in Worker, NEW c \in New, NEW target \in targets,
           Pass(w, c, target)
    PROVE  TemplatesInv'
<1>1. \/ workers' = [workers EXCEPT ![w] = [pc |-> "panicked", cluster |-> c]]
      \/ workers' = [workers EXCEPT ![w] =
              [pc |-> "read", cluster |-> c, path |-> <<"path", c>>, target |-> target]]
  BY DEF Pass, Goes, ClusterPathFromObject
<1>2. UNCHANGED <<vars, annotated, templates, renders>>
  BY DEF Pass
<1>3. HostsInv' /\ UNCHANGED targets
  BY <1>2, HostsUnchanged DEF TemplatesInv, vars
<1>4. WorkersTyped'
  BY <1>1, <1>3 DEF TemplatesInv, WorkersTyped
<1>. QED  BY <1>2, <1>3, <1>4 DEF TemplatesInv, RendersExecuted

\* A worker whose pass panicked works on.
LEMMA RecoverStep ==
    ASSUME TemplatesInv, NEW w \in Worker, Recover(w)
    PROVE  TemplatesInv'
<1>1. workers' = [workers EXCEPT ![w] = Idle] /\ UNCHANGED <<vars, templates, renders>>
  BY DEF Recover, Goes
<1>2. HostsInv' /\ UNCHANGED targets
  BY <1>1, HostsUnchanged DEF TemplatesInv, vars
<1>3. WorkersTyped'
  BY <1>1, <1>2 DEF TemplatesInv, WorkersTyped, Idle
<1>. QED  BY <1>1, <1>2, <1>3 DEF TemplatesInv, RendersExecuted

\* A worker has the template, if any, that its client finds.
LEMMA NewSourceStep ==
    ASSUME HostsAssumption, TemplatesInv, NEW w \in Worker, NewSource(w)
    PROVE  TemplatesInv'
<1>. DEFINE target == workers[w].target
            ws == Addressed(ClusterConfig(target.cluster))
            parsed == [pc |-> "parsed", cluster |-> workers[w].cluster,
                       path |-> workers[w].path, tpl |-> templates[ws]]
<1>1. /\ workers[w].pc = "read" /\ NewInitTemplate(target)
      /\ workers' = [workers EXCEPT ![w] = IF ws = Nowhere THEN Idle ELSE parsed]
      /\ UNCHANGED <<annotated, templates, renders>>
  BY DEF NewSource, Goes
<1>2. target \in targets
  BY <1>1 DEF TemplatesInv, WorkersTyped
<1>3. HostsInv' /\ UNCHANGED targets
  BY <1>1, <1>2, NewInitTemplateStep DEF TemplatesInv, NewInitTemplate
<1>4. ws \in Cluster \cup {Nowhere}
  <2>1. target.cluster \in Ref /\ base \in Seq(Segment)
    BY <1>2, Resolving DEF TemplatesInv, HostsInv, ReadTyped, BaseStripped, HostsAssumption
  <2>. QED  BY <2>1, Addressing, Resolving DEF ClusterConfig
<1>. HIDE DEF ws
<1>5. ws # Nowhere => templates[ws] \in Template
  BY <1>4 DEF TemplatesInv
<1>6. workers[w].path = <<"path", workers[w].cluster>>
  BY <1>1 DEF TemplatesInv, WorkersTyped
<1>7. WorkersTyped'
  BY <1>1, <1>3, <1>5, <1>6 DEF TemplatesInv, WorkersTyped, Idle
<1>. QED  BY <1>1, <1>3, <1>7 DEF TemplatesInv, RendersExecuted

\* A rendering is the execution of a template with name and path of its workspace.
LEMMA RenderStep ==
    ASSUME TemplatesInv, NEW w \in Worker, NEW random \in Random, render(w, random)
    PROVE  TemplatesInv'
<1>. DEFINE at == workers[w]
            r == [cluster |-> at.cluster, tpl |-> at.tpl,
                  out |-> Execute(at.tpl, <<"name", at.cluster>>, at.path, random)]
<1>1. /\ at.pc = "parsed" /\ renders' \subseteq renders \cup {r}
      /\ workers' = [workers EXCEPT ![w] = Idle]
      /\ UNCHANGED <<vars, annotated, templates>>
  BY DEF render, Goes, ClusterNameFromObject
<1>2. HostsInv' /\ UNCHANGED targets
  BY <1>1, HostsUnchanged DEF TemplatesInv, vars
<1>3. WorkersTyped'
  BY <1>1, <1>2 DEF TemplatesInv, WorkersTyped, Idle
<1>4. at.tpl \in Template /\ at.path = <<"path", at.cluster>>
  BY <1>1 DEF TemplatesInv, WorkersTyped
<1>5. RendersExecuted'
  <2>1. /\ r.tpl \in Template
        /\ r.out = Execute(r.tpl, <<"name", r.cluster>>, <<"path", r.cluster>>, random)
    BY <1>4
  <2>. HIDE DEF r
  <2>. QED  BY <1>1, <2>1 DEF TemplatesInv, RendersExecuted
<1>. QED  BY <1>1, <1>2, <1>3, <1>5 DEF TemplatesInv

\* Every step keeps the invariant.
LEMMA TemplatesStep ==
    ASSUME HostsAssumption, TemplatesInv, [TemplatesNext]_<<vars, templateVars>>
    PROVE  TemplatesInv'
<1>1. CASE UNCHANGED <<vars, templateVars>>
  BY <1>1, HostsUnchanged DEF TemplatesInv, WorkersTyped, RendersExecuted, vars, templateVars
<1>2. CASE TemplatesNext
  BY <1>2, ClientStep, AnnotatePathStep, EditTemplateStep, PassStep, RecoverStep,
     NewSourceStep, RenderStep
     DEF TemplatesNext
<1>. QED  BY <1>1, <1>2

\* The invariant holds always.
LEMMA TemplatesInvariance == TemplatesSpec => []TemplatesInv
<1>1. TemplatesInit => TemplatesInv
  BY TemplatesInitInv, HostsAssumption
<1>2. TemplatesInv /\ [TemplatesNext]_<<vars, templateVars>> => TemplatesInv'
  BY TemplatesStep, HostsAssumption
<1>. QED  BY <1>1, <1>2, PTL DEF TemplatesSpec

\* A client always talks to the one workspace it is for: however many workspaces
\* the agent has met, and wherever the kubeconfig points, except at a workspace
\* with slashes behind it (clusterclient.go:44-49, rest.go:30-42).
THEOREM ClientsAreRight == TemplatesSpec => []ClientsAddressTheirWorkspace
<1>1. TemplatesInv => ClientsAddressTheirWorkspace
  BY HostsInvImplies, HostsAssumption DEF TemplatesInv
<1>. QED  BY <1>1, TemplatesInvariance, PTL

\* Without a random function, what a template writes depends on the workspace
\* alone, escapes and dropped comments included.
LEMMA DeterministicRendering ==
    ASSUME TemplatesAssumption, NEW tpl \in Template, Deterministic(tpl),
           NEW name, NEW path, NEW r1, NEW r2
    PROVE  Execute(tpl, name, path, r1) = Execute(tpl, name, path, r2)
<1>1. \A k \in DOMAIN tpl : Value(tpl[k], name, path, r1) = Value(tpl[k], name, path, r2)
  BY DEF Deterministic, Value
<1>. QED  BY <1>1 DEF Execute

\* A retry renders what every earlier pass over the workspace rendered from the
\* same template (source.go:62-74, annotations.go:32-39).
THEOREM RetriesAreEqual == TemplatesSpec => []RetriesRenderTheSame
<1>1. ASSUME TemplatesInv, NEW r \in renders, NEW s \in renders,
             r.cluster = s.cluster, r.tpl = s.tpl, Deterministic(r.tpl)
      PROVE  r.out = s.out
  <2>. DEFINE name == <<"name", r.cluster>>  path == <<"path", r.cluster>>
  <2>1. r.tpl \in Template
    BY <1>1 DEF TemplatesInv, RendersExecuted
  <2>2. PICK x \in Random : r.out = Execute(r.tpl, name, path, x)
    BY <1>1 DEF TemplatesInv, RendersExecuted
  <2>3. PICK y \in Random : s.out = Execute(r.tpl, name, path, y)
    BY <1>1 DEF TemplatesInv, RendersExecuted
  <2>4. Execute(r.tpl, name, path, x) = Execute(r.tpl, name, path, y)
    BY <1>1, <2>1, DeterministicRendering, TemplatesAssumption
  <2>. QED  BY <2>2, <2>3, <2>4
<1>2. TemplatesInv => RetriesRenderTheSame
  BY <1>1 DEF RetriesRenderTheSame
<1>. QED  BY <1>2, TemplatesInvariance, PTL
=============================================================================
