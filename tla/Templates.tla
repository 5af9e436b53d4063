----------------------------- MODULE Templates -----------------------------
(***************************************************************************)
(* Rendering InitTemplates (internal/initialize/source), once in every     *)
(* pass over a new workspace until the pass succeeds, with the clients of  *)
(* WorkspaceClients: the InitTemplate is read from the workspace of the    *)
(* InitTarget, where others of its name may say something else.            *)
(*                                                                         *)
(* A template is a sequence of nodes: pieces of text and actions, which    *)
(* write the name or path of the new workspace, through sprig's `quote' or *)
(* not, or a random value.  The program parses it with html/template: the  *)
(* text is taken for HTML, what looks like a tag changes how the actions   *)
(* after it are escaped, comments are dropped, and a template that ends    *)
(* inside an element like <script> is refused whenever it is executed.     *)
(* The script element stands for all places where values are not those of  *)
(* HTML text.                                                              *)
(***************************************************************************)
EXTENDS WorkspaceClients

CONSTANTS
    Worker,     \* workers of the init controllers
    New,        \* workspaces to initialize; each has a path of its own
    Template,   \* what an InitTemplate may say: sequences of nodes
    Random,     \* values a random function returns
    Nil         \* the missing annotation

\* Text: with nothing special in it, a `<' that starts no tag, a comment, and the
\* tags that open and close a script; then the actions.
Node == [kind: {"text", "less", "comment", "opens", "closes", "random"}] \cup
        [kind: {"value"}, of: {"name", "path"}, quoted: BOOLEAN]

ASSUME TemplatesAssumption ==
    \A t \in Template : \A k \in DOMAIN t : t[k] \in Node

VARIABLES
    annotated,  \* workspaces whose LogicalCluster has the path annotation
    templates,  \* what the InitTemplate says in each workspace
    workers,    \* what each worker is doing
    renders     \* every rendering: of which template, for whom, with what result

templateVars == <<annotated, templates, workers, renders>>
-----------------------------------------------------------------------------
\* Mutant: without the annotation the path is empty.
Bug_ClusterPathFromObject(c) ==
    {IF c \in annotated THEN <<"path", c>> ELSE <<"path", Nil>>}

\* The path, or no value at all: without the annotation the call panics.
ClusterPathFromObject(c) == IF c \in annotated THEN {<<"path", c>>} ELSE {}

ClusterNameFromObject(c) == <<"name", c>>

\* What is written: tokens, each with its kind.
Mark(what) == <<"mark", what>>

\* The value of an action, with sprig's quotes around a quoted one ...
Value(node, name, path, random) ==
    IF node.kind = "random" THEN <<<<"random", random>>>>
    ELSE LET value == IF node.of = "name" THEN name ELSE path
         IN IF node.quoted THEN <<Mark("quote"), value, Mark("quote")>> ELSE <<value>>

\* ... which html/template turns into entities, or into a JavaScript string.
Escaped(value, script) ==
    LET quote == Mark(IF script THEN "unicode" ELSE "entity")
        plain == [k \in DOMAIN value |-> IF value[k] = Mark("quote") THEN quote ELSE value[k]]
    IN IF script THEN <<Mark("quote")>> \o plain \o <<Mark("quote")>> ELSE plain

\* What it leaves of the template's own text.
TextWritten(kind, script) ==
    IF kind = "comment" THEN <<>>
    ELSE IF kind = "less" /\ ~script THEN <<Mark("entity")>>
    ELSE <<<<"text", kind>>>>

\* Before the k-th node a script was opened and not closed.
InScript(tpl, k) ==
    \E j \in 1..k-1 : tpl[j].kind = "opens" /\ \A i \in j..k-1 : tpl[i].kind # "closes"

Refused(tpl) == InScript(tpl, Len(tpl) + 1)

Execute(tpl, name, path, random) ==
    [k \in DOMAIN tpl |->
        IF tpl[k].kind \in {"value", "random"}
        THEN Escaped(Value(tpl[k], name, path, random), InScript(tpl, k))
        ELSE TextWritten(tpl[k].kind, InScript(tpl, k))]
-----------------------------------------------------------------------------
Idle == [pc |-> "idle"]
Goes(w, state) == workers' = [workers EXCEPT ![w] = state]

TemplatesInit ==
    /\ Init
    /\ annotated = {}
    /\ templates \in [Cluster -> Template]
    /\ workers = [w \in Worker |-> Idle]
    /\ renders = {}

\* kcp puts the path on the LogicalCluster, somebody edits an InitTemplate.
AnnotatePath(c) ==
    /\ c \notin annotated
    /\ annotated' = annotated \cup {c}
    /\ UNCHANGED <<vars, templates, workers, renders>>

EditTemplate(ws, tpl) ==
    /\ templates' = [templates EXCEPT ![ws] = tpl]
    /\ UNCHANGED <<vars, annotated, workers, renders>>

\* A pass reads the LogicalCluster, with it its path, and the InitTarget; without
\* a path it panics.
Pass(w, c, target) ==
    /\ workers[w] = Idle
    /\ \A v \in Worker : workers[v].pc # "idle" => workers[v].cluster # c
    /\ target \in targets
    /\ IF ClusterPathFromObject(c) = {} THEN Goes(w, [pc |-> "panicked", cluster |-> c])
       ELSE \E path \in ClusterPathFromObject(c) :
                Goes(w, [pc |-> "read", cluster |-> c, path |-> path, target |-> target])
    /\ UNCHANGED <<vars, annotated, templates, renders>>

\* controller-runtime takes the panic for an error of the pass, and retries it.
Recover(w) ==
    /\ workers[w].pc = "panicked"
    /\ Goes(w, Idle)
    /\ UNCHANGED <<vars, annotated, templates, renders>>

\* NewFromInitTemplate parses the template that the client finds at this moment;
\* it finds none behind a host that is no workspace's.
NewSource(w) ==
    /\ workers[w].pc = "read"
    /\ NewInitTemplate(workers[w].target)
    /\ LET ws == Addressed(ClusterConfig(workers[w].target.cluster))
       IN Goes(w, IF ws = Nowhere THEN Idle
                  ELSE [pc |-> "parsed", cluster |-> workers[w].cluster,
                        path |-> workers[w].path, tpl |-> templates[ws]])
    /\ UNCHANGED <<annotated, templates, renders>>

\* A refused template writes nothing and fails the pass.
render(w, random) ==
    LET at == workers[w]
        name == ClusterNameFromObject(at.cluster)
        rendering == [cluster |-> at.cluster, tpl |-> at.tpl,
                      out |-> Execute(at.tpl, name, at.path, random)]
    IN /\ at.pc = "parsed"
       /\ renders' = IF Refused(at.tpl) THEN renders ELSE renders \cup {rendering}
       /\ Goes(w, Idle)
       /\ UNCHANGED <<vars, annotated, templates>>

TemplatesNext ==
    \/ Next /\ UNCHANGED templateVars
    \/ \E c \in New : AnnotatePath(c)
    \/ \E ws \in Cluster, tpl \in Template : EditTemplate(ws, tpl)
    \/ \E w \in Worker :
        \/ \E c \in New, target \in targets : Pass(w, c, target)
        \/ Recover(w) \/ NewSource(w)
        \/ \E random \in Random : render(w, random)

TemplatesSpec == TemplatesInit /\ [][TemplatesNext]_<<vars, templateVars>>

\* The process starts and finds an InitTarget; a pass goes on to its end, and one
\* that did not succeed is tried again.  Nobody has to annotate or edit anything.
FairTemplatesSpec ==
    /\ TemplatesSpec
    /\ WF_<<vars, templateVars>>(UNCHANGED templateVars /\
            (Run \/ \E path \in Ref \cup {Empty} : ReadTarget(path)))
    /\ \A c \in New : SF_<<vars, templateVars>>(
            \E w \in Worker, target \in targets : Pass(w, c, target))
    /\ \A w \in Worker : WF_<<vars, templateVars>>(
            Recover(w) \/ NewSource(w) \/ \E random \in Random : render(w, random))
-----------------------------------------------------------------------------
(* Properties                                                              *)

Deterministic(tpl) == \A k \in DOMAIN tpl : tpl[k].kind # "random"

\* "the init-agent might render the same templates on multiple occasions for
\* the same cluster": without a random function each occasion yields the same
\* manifests, so that a retry applies what the pass before it applied - also
\* when the first passes found no path annotation (source.go:62-74,
\* annotations.go:32-39).
RetriesRenderTheSame ==
    \A r, s \in renders :
        (r.cluster = s.cluster /\ r.tpl = s.tpl /\ Deterministic(r.tpl)) => r.out = s.out

\* A workspace is rendered in the end, however many passes panicked before kcp
\* had written its path and wherever the kubeconfig points (slashes behind a
\* workspace excepted), if the InitTemplate stays one that html/template accepts
\* (annotations.go:33-36, source.go:69-71, rest.go:30-42).
EventuallyRendered ==
    ~SlashAfterCluster(kubeconfig) => \A c \in New :
        <>[](c \in annotated /\ ~Refused(templates[Resolve(configws)]))
            => <>(\E r \in renders : r.cluster = c)
=============================================================================
