------------------------- MODULE ApplyConfiguration -------------------------
(***************************************************************************)
(* The builders of declarative configurations (sdk/applyconfiguration),    *)
(* with their pointers.                                                    *)
(*                                                                         *)
(* A caller builds what a server-side apply sends by chaining With calls,  *)
(* and reuses what it passes to them: its own label maps, which it edits   *)
(* afterwards, the labels of another builder, one source builder appended  *)
(* several times, one spec or one template for two objects.  What a With   *)
(* call copies and what it keeps a pointer to decides what the second use  *)
(* does to the first.  Configurations says what it may do.                 *)
(***************************************************************************)
EXTENDS Naturals, Sequences

CONSTANTS
    InitTargets, InitTemplates, SpecBuilder, SourceBuilder, TemplateBuilder,
    CallerMap, Key, Value, Nil, MaxPassed,
    MaxCalls        \* bound: calls made

VARIABLES
    heap,       \* label maps: the callers', and under a builder's name its own
    made,       \* InitTarget and InitTemplate configurations constructed
    fields, finalizers, owners,
    labelsAt,   \* the address of each one's labels
    spec,       \* the address of its spec
    specs,      \* InitTargetSpec configurations: the sources
    sources,    \* InitSource configurations: the address of the template
    templates,  \* TemplateInitSource configurations: the name
    calls       \* calls made

metaVars == <<fields, finalizers, owners>>
vars == <<heap, made, metaVars, labelsAt, spec, specs, sources, templates, calls>>

\* What an apply sends of a builder's labels and of a spec's sources.
Labels(b) == IF labelsAt[b] = Nil THEN [k \in Key |-> Nil] ELSE heap[labelsAt[b]]
TemplateOf(at) == IF at \in SourceBuilder THEN sources[at] ELSE at
Sources(s) == [k \in DOMAIN specs[s] |-> TemplateOf(specs[s][k])]

Declared == INSTANCE Configurations WITH
    maps <- [m \in CallerMap |-> heap[m]],
    labels <- [b \in InitTargets \cup InitTemplates |-> Labels(b)],
    sources <- [s \in SpecBuilder |-> Sources(s)],
    chosen <- sources,
    names <- templates

Builder == Declared!Builder
Field == Declared!Field
NoEntries == Declared!NoEntries
Lists(S) == Declared!Lists(S)

ASSUME ConfigurationsAssumption ==
    /\ CallerMap \cap Builder = {}
    /\ SourceBuilder \cap TemplateBuilder = {}
    /\ Nil \notin Builder \cup CallerMap \cup SourceBuilder
    /\ MaxPassed \in Nat /\ MaxCalls \in Nat
-----------------------------------------------------------------------------
Init ==
    /\ heap = [m \in CallerMap \cup Builder |-> NoEntries]
    /\ made = {}
    /\ fields = [b \in Builder |-> [f \in Field |-> Nil]]
    /\ finalizers = [b \in Builder |-> <<>>] /\ owners = [b \in Builder |-> <<>>]
    /\ labelsAt = [b \in Builder |-> Nil] /\ spec = [b \in Builder |-> Nil]
    /\ specs = [s \in SpecBuilder |-> <<>>]
    /\ sources = [o \in SourceBuilder |-> Nil]
    /\ templates = [p \in TemplateBuilder |-> Nil]
    /\ calls = 0

Called == calls < MaxCalls /\ calls' = calls + 1

\* The constructors set name and kind (and the API version).
New(b, kind, name) ==
    /\ b \notin made /\ made' = made \cup {b}
    /\ fields' = [fields EXCEPT ![b] = [f \in Field |-> IF f = "kind" THEN kind ELSE name]]
    /\ Called
    /\ UNCHANGED <<heap, finalizers, owners, labelsAt, spec, specs, sources, templates>>

InitTarget(b, name) == b \in InitTargets /\ New(b, "InitTarget", name)
InitTemplate(b, name) == b \in InitTemplates /\ New(b, "InitTemplate", name)

\* WithName, WithUID, WithGeneration, ...: a pointer to the call's own copy.
SetField(b, field, value) ==
    /\ b \in made
    /\ fields' = [fields EXCEPT ![b] = [@ EXCEPT ![field] = value]]
    /\ Called
    /\ UNCHANGED <<heap, made, finalizers, owners, labelsAt, spec, specs, sources, templates>>

InitTargetWith(b, field, value) == b \in InitTargets /\ SetField(b, field, value)
InitTemplateWith(b, field, value) == b \in InitTemplates /\ SetField(b, field, value)

\* The address of the map WithLabels writes to, Nil when it writes none.
\* Mutant: the first call keeps the map it is passed.
Bug_LabelsOf(b, m) == IF labelsAt[b] = Nil THEN m ELSE labelsAt[b]
LabelsOf(b, m) ==
    IF labelsAt[b] # Nil THEN labelsAt[b]
    ELSE IF heap[m] = NoEntries THEN Nil ELSE b

\* The maps a caller has at hand: its own, and those of the builders.
Passable == CallerMap \cup ({labelsAt[b] : b \in Builder} \ {Nil})

\* Entries overwrite those with the same key.
WithLabels(b, m) ==
    LET at == LabelsOf(b, m)
    IN /\ b \in made
       /\ labelsAt' = [labelsAt EXCEPT ![b] = at]
       /\ heap' = IF at = Nil THEN heap
                  ELSE [heap EXCEPT ![at] = Declared!Over(heap[m], @)]
       /\ Called
       /\ UNCHANGED <<made, metaVars, spec, specs, sources, templates>>

WithFinalizers(b, values) ==
    /\ b \in made
    /\ finalizers' = [finalizers EXCEPT ![b] = @ \o values]
    /\ Called
    /\ UNCHANGED <<heap, made, fields, owners, labelsAt, spec, specs, sources, templates>>

\* A call appends one value after the other and panics at the first nil; what
\* came before it stays.
BeforeNil(values) ==
    LET stops == {n \in 0..Len(values) : n < Len(values) => values[n + 1] = Nil}
    IN SubSeq(values, 1, CHOOSE n \in stops : \A m \in stops : n <= m)

WithOwnerReferences(b, values) ==
    /\ b \in made
    /\ owners' = [owners EXCEPT ![b] = @ \o BeforeNil(values)]
    /\ Called
    /\ UNCHANGED <<heap, made, fields, finalizers, labelsAt, spec, specs, sources, templates>>

\* WithSpec keeps the pointer.
WithSpec(b, s) ==
    /\ b \in InitTargets \cap made
    /\ spec' = [spec EXCEPT ![b] = s]
    /\ Called
    /\ UNCHANGED <<heap, made, metaVars, labelsAt, specs, sources, templates>>

\* WithSources copies the InitSource, and with it the template pointer.
\* Mutant: it keeps a pointer to the source builder.
Bug_Element(o) == o
Element(o) == sources[o]

WithSources(s, values) ==
    /\ specs' = [specs EXCEPT ![s] =
           @ \o [k \in DOMAIN BeforeNil(values) |-> Element(BeforeNil(values)[k])]]
    /\ Called
    /\ UNCHANGED <<heap, made, metaVars, labelsAt, spec, sources, templates>>

WithTemplate(o, p) ==
    /\ sources' = [sources EXCEPT ![o] = p]
    /\ Called
    /\ UNCHANGED <<heap, made, metaVars, labelsAt, spec, specs, templates>>

TemplateWithName(p, name) ==
    /\ templates' = [templates EXCEPT ![p] = name]
    /\ Called
    /\ UNCHANGED <<heap, made, metaVars, labelsAt, spec, specs, sources>>

\* The caller goes on using its map.
CallerPuts(m, key, value) ==
    /\ heap' = [heap EXCEPT ![m] = [@ EXCEPT ![key] = value]]
    /\ Called
    /\ UNCHANGED <<made, metaVars, labelsAt, spec, specs, sources, templates>>

Next ==
    \/ \E b \in Builder :
        \/ \E v \in Value : InitTarget(b, v) \/ InitTemplate(b, v)
        \/ \E f \in Field, v \in Value : InitTargetWith(b, f, v) \/ InitTemplateWith(b, f, v)
        \/ \E m \in Passable : WithLabels(b, m)
        \/ \E values \in Lists(Value) : WithFinalizers(b, values)
        \/ \E values \in Lists(Value \cup {Nil}) : WithOwnerReferences(b, values)
        \/ \E s \in SpecBuilder : WithSpec(b, s)
    \/ \E s \in SpecBuilder, values \in Lists(SourceBuilder \cup {Nil}) : WithSources(s, values)
    \/ \E o \in SourceBuilder, p \in TemplateBuilder : WithTemplate(o, p)
    \/ \E p \in TemplateBuilder, v \in Value : TemplateWithName(p, v)
    \/ \E m \in CallerMap, k \in Key, v \in Value : CallerPuts(m, k, v)

Spec == Init /\ [][Next]_vars
-----------------------------------------------------------------------------
(* Properties                                                              *)

\* Each call does to its own builder what its doc comment says, and nothing to
\* another - whatever other builder got the same map, source or template, and
\* however the caller changed it since (inittarget.go:45-209, inittargetspec.go:42-53).
CallsSayWhatTheyPromise == Declared!Spec
=============================================================================
