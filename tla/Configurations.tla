--------------------------- MODULE Configurations ---------------------------
(***************************************************************************)
(* What the builders of declarative configurations promise in the doc      *)
(* comments of their With functions: a call says something about its own   *)
(* builder and about no other.  A field has its last value, an entry is    *)
(* put over the one with the same key, values are appended in order.       *)
(*                                                                         *)
(* Nothing here has an address but what a configuration shares on purpose: *)
(* the spec of an object, and the template of a source.                    *)
(***************************************************************************)
EXTENDS Naturals, Sequences

CONSTANTS
    InitTargets,    \* InitTarget builders
    InitTemplates,  \* InitTemplate builders
    SpecBuilder, SourceBuilder, TemplateBuilder,
    CallerMap,      \* maps of labels the caller owns
    Key, Value,
    Nil,            \* nil pointer or unset field
    MaxPassed       \* bound: values passed in one call

Builder == InitTargets \cup InitTemplates
Field == {"kind", "name"}              \* two of the eleven scalar fields
Entries == [Key -> Value \cup {Nil}]   \* a map; Nil for a key it does not have
NoEntries == [k \in Key |-> Nil]

VARIABLES
    maps,        \* the caller's maps
    made,        \* objects constructed
    fields, labels, finalizers, owners, spec,   \* of each object
    sources,     \* of each spec: the templates of the sources appended
    chosen,      \* the template of each source builder
    names        \* the name in each template

vars == <<maps, made, fields, labels, finalizers, owners, spec, sources, chosen, names>>
-----------------------------------------------------------------------------
Init ==
    /\ maps = [m \in CallerMap |-> NoEntries]
    /\ made = {}
    /\ fields = [b \in Builder |-> [f \in Field |-> Nil]]
    /\ labels = [b \in Builder |-> NoEntries]
    /\ finalizers = [b \in Builder |-> <<>>] /\ owners = [b \in Builder |-> <<>>]
    /\ spec = [b \in Builder |-> Nil]
    /\ sources = [s \in SpecBuilder |-> <<>>]
    /\ chosen = [o \in SourceBuilder |-> Nil]
    /\ names = [p \in TemplateBuilder |-> Nil]

Over(entries, old) == [k \in Key |-> IF entries[k] # Nil THEN entries[k] ELSE old[k]]

\* What is appended of the values passed: those before the first nil.
Accepted(values) ==
    {SubSeq(values, 1, n) : n \in {n \in 0..Len(values) :
        /\ \A k \in 1..n : values[k] # Nil
        /\ n < Len(values) => values[n + 1] = Nil}}

Construct(b, kind, name) ==
    /\ b \notin made /\ made' = made \cup {b}
    /\ fields' = [fields EXCEPT ![b] = [f \in Field |-> IF f = "kind" THEN kind ELSE name]]
    /\ UNCHANGED <<maps, labels, finalizers, owners, spec, sources, chosen, names>>

SetField(b, field, value) ==
    /\ b \in made
    /\ fields' = [fields EXCEPT ![b] = [@ EXCEPT ![field] = value]]
    /\ UNCHANGED <<maps, made, labels, finalizers, owners, spec, sources, chosen, names>>

PutLabels(b, entries) ==
    /\ b \in made
    /\ labels' = [labels EXCEPT ![b] = Over(entries, @)]
    /\ UNCHANGED <<maps, made, fields, finalizers, owners, spec, sources, chosen, names>>

AppendFinalizers(b, values) ==
    /\ b \in made
    /\ finalizers' = [finalizers EXCEPT ![b] = @ \o values]
    /\ UNCHANGED <<maps, made, fields, labels, owners, spec, sources, chosen, names>>

AppendOwners(b, values) ==
    /\ b \in made
    /\ \E kept \in Accepted(values) : owners' = [owners EXCEPT ![b] = @ \o kept]
    /\ UNCHANGED <<maps, made, fields, labels, finalizers, spec, sources, chosen, names>>

SetSpec(b, s) ==
    /\ b \in made
    /\ spec' = [spec EXCEPT ![b] = s]
    /\ UNCHANGED <<maps, made, fields, labels, finalizers, owners, sources, chosen, names>>

\* Each source is appended with the template it has at the time of the call.
AppendSources(s, values) ==
    /\ \E kept \in Accepted(values) :
        sources' = [sources EXCEPT ![s] = @ \o [k \in DOMAIN kept |-> chosen[kept[k]]]]
    /\ UNCHANGED <<maps, made, fields, labels, finalizers, owners, spec, chosen, names>>

ChooseTemplate(o, p) ==
    /\ chosen' = [chosen EXCEPT ![o] = p]
    /\ UNCHANGED <<maps, made, fields, labels, finalizers, owners, spec, sources, names>>

NameTemplate(p, name) ==
    /\ names' = [names EXCEPT ![p] = name]
    /\ UNCHANGED <<maps, made, fields, labels, finalizers, owners, spec, sources, chosen>>

\* The caller's map is the caller's alone.
CallerPuts(m, key, value) ==
    /\ maps' = [maps EXCEPT ![m] = [@ EXCEPT ![key] = value]]
    /\ UNCHANGED <<made, fields, labels, finalizers, owners, spec, sources, chosen, names>>

Lists(S) == UNION {[1..n -> S] : n \in 0..MaxPassed}

Next ==
    \/ \E b \in Builder :
        \/ \E kind \in {"InitTarget", "InitTemplate"}, v \in Value : Construct(b, kind, v)
        \/ \E f \in Field, v \in Value : SetField(b, f, v)
        \/ \E m \in CallerMap : PutLabels(b, maps[m])
        \/ \E other \in Builder : PutLabels(b, labels[other])
        \/ \E values \in Lists(Value) : AppendFinalizers(b, values)
        \/ \E values \in Lists(Value \cup {Nil}) : AppendOwners(b, values)
        \/ \E s \in SpecBuilder : SetSpec(b, s)
    \/ \E s \in SpecBuilder, values \in Lists(SourceBuilder \cup {Nil}) : AppendSources(s, values)
    \/ \E o \in SourceBuilder, p \in TemplateBuilder : ChooseTemplate(o, p)
    \/ \E p \in TemplateBuilder, v \in Value : NameTemplate(p, v)
    \/ \E m \in CallerMap, k \in Key, v \in Value : CallerPuts(m, k, v)

Spec == Init /\ [][Next]_vars
=============================================================================
