---------------------- MODULE ApplyConfigurationProofs ----------------------
(***************************************************************************)
(* The builders implement Configurations: for any builders, maps and       *)
(* values, every With call changes what its own builder says, as its doc   *)
(* comment defines it, and nothing that another builder says.              *)
(***************************************************************************)
EXTENDS ApplyConfiguration, WellFoundedInduction, TLAPS

Entries == Declared!Entries

\* The caller's maps and the builders' own, which are maps of labels.
HeapTyped == heap \in [CallerMap \cup Builder -> Entries]

\* A builder's labels are in no map but its own, and until it has labels that
\* map is empty: this is what a second use of a map cannot reach.
LabelsOwned ==
    /\ labelsAt \in [Builder -> Builder \cup {Nil}]
    /\ \A b \in Builder :
        /\ labelsAt[b] \in {b, Nil}
        /\ labelsAt[b] = Nil => heap[b] = NoEntries

\* A spec's sources are copies, which hold a template's address.
SourcesCopied ==
    /\ sources \in [SourceBuilder -> TemplateBuilder \cup {Nil}]
    /\ specs \in [SpecBuilder -> Seq(TemplateBuilder \cup {Nil})]

IInv == HeapTyped /\ LabelsOwned /\ SourcesCopied

(***************************************************************************)
(* What the invariant says of the mapping                                  *)
(***************************************************************************)

\* A set of naturals has a least element.
LEMMA Least ==
    ASSUME NEW S, S \subseteq Nat, S # {}
    PROVE  \E n \in S : \A m \in S : n <= m
<1>. DEFINE Less == {pair \in Nat \X Nat : pair[1] < pair[2]}
<1>1. IsWellFoundedOn(Less, Nat)
  BY NatLessThanWellFounded DEF OpToRel
<1>. HIDE DEF Less
<1>2. PICK x \in S : \A y \in S : <<y, x>> \notin Less
  BY <1>1, WFMin, Zenon
<1>3. ASSUME NEW y \in S PROVE x <= y
  <2>1. <<y, x>> \in Nat \X Nat
    BY <1>2
  <2>2. ~(<<y, x>>[1] < <<y, x>>[2])
    BY <2>1, <1>2 DEF Less
  <2>. QED  BY <2>2, <1>2
<1>. QED  BY <1>2, <1>3

\* The loop that panics at the first nil appends what is before it.
LEMMA AcceptedBeforeNil ==
    ASSUME NEW S, NEW values \in Seq(S \cup {Nil})
    PROVE  /\ BeforeNil(values) \in Declared!Accepted(values)
           /\ BeforeNil(values) \in Seq(S)
<1>. DEFINE stops == {n \in 0..Len(values) : n < Len(values) => values[n + 1] = Nil}
<1>1. stops \subseteq Nat /\ Len(values) \in stops
  OBVIOUS
<1>2. \E n \in stops : \A m \in stops : n <= m
  <2>. HIDE DEF stops
  <2>. QED  BY <1>1, Least
<1>3. PICK n : /\ n \in stops /\ \A m \in stops : n <= m
               /\ n = CHOOSE k \in stops : \A m \in stops : k <= m
  BY <1>2, Zenon
<1>4. n \in 0..Len(values) /\ (n < Len(values) => values[n + 1] = Nil)
  BY <1>3
<1>5. ASSUME NEW k \in 1..n PROVE values[k] # Nil
  <2>1. SUFFICES ASSUME values[k] = Nil PROVE FALSE
    OBVIOUS
  <2>2. k - 1 \in stops
    BY <1>4, <2>1
  <2>3. n <= k - 1
    BY <1>3, <2>2
  <2>. QED  BY <1>4, <2>3
<1>6. BeforeNil(values) = SubSeq(values, 1, n)
  BY <1>3 DEF BeforeNil
<1>7. SubSeq(values, 1, n) \in Declared!Accepted(values)
  BY <1>4, <1>5 DEF Declared!Accepted
<1>8. SubSeq(values, 1, n) \in Seq(S)
  BY <1>4, <1>5
<1>. QED  BY <1>6, <1>7, <1>8

\* The values of a call are a sequence.
LEMMA ListsAreSequences ==
    ASSUME NEW S, NEW values \in Lists(S)
    PROVE  values \in Seq(S)
BY DEF Lists, Declared!Lists

\* The labels sent are those in the builder's own map.
LEMMA LabelsAreOwn ==
    ASSUME IInv, NEW b \in Builder
    PROVE  Labels(b) = heap[b]
BY DEF IInv, LabelsOwned, Labels, NoEntries, Declared!NoEntries

\* The sources sent are the copies.
LEMMA SourcesAreCopies ==
    ASSUME ConfigurationsAssumption, IInv, NEW s \in SpecBuilder
    PROVE  Sources(s) = specs[s]
<1>1. specs[s] \in Seq(TemplateBuilder \cup {Nil})
  BY DEF IInv, SourcesCopied
<1>2. \A k \in DOMAIN specs[s] : specs[s][k] \notin SourceBuilder
  BY <1>1 DEF ConfigurationsAssumption
<1>3. Sources(s) = [k \in DOMAIN specs[s] |-> specs[s][k]]
  BY <1>2 DEF Sources, TemplateOf
<1>. QED  BY <1>1, <1>3

\* What the variables of Configurations stand for.
SentLabels == [b \in InitTargets \cup InitTemplates |-> Labels(b)]
SentSources == [s \in SpecBuilder |-> Sources(s)]
CallersMaps == [m \in CallerMap |-> heap[m]]

\* Each builder's own map, a spec's copies.
LEMMA Mapping == IInv => SentLabels = [b \in Builder |-> heap[b]] /\ SentSources = specs
<1>. SUFFICES ASSUME IInv
              PROVE  SentLabels = [b \in Builder |-> heap[b]] /\ SentSources = specs
  OBVIOUS
<1>1. SentLabels = [b \in Builder |-> heap[b]]
  BY LabelsAreOwn DEF SentLabels, Builder, Declared!Builder
<1>2. SentSources = specs
  BY SourcesAreCopies, ConfigurationsAssumption DEF SentSources, IInv, SourcesCopied
<1>. QED  BY <1>1, <1>2

\* The same after a step.
LEMMA MappingNext ==
    IInv' => SentLabels' = [b \in Builder |-> heap'[b]] /\ SentSources' = specs'
<1>1. (IInv => SentLabels = [b \in Builder |-> heap[b]] /\ SentSources = specs)'
  BY Mapping, PTL
<1>. QED  BY <1>1

(***************************************************************************)
(* The invariant                                                           *)
(***************************************************************************)

\* At the start there are no labels and no sources.
LEMMA InitIInv == Init => IInv
BY ConfigurationsAssumption
   DEF Init, IInv, HeapTyped, LabelsOwned, SourcesCopied, Entries, Declared!Entries,
       NoEntries, Declared!NoEntries

\* A call that has nothing to do with labels, specs and sources.
ElseUnchanged == UNCHANGED <<heap, labelsAt, specs, sources>>

\* A call about other fields disturbs nothing of it.
LEMMA ElseIInv == ASSUME IInv, ElseUnchanged PROVE IInv'
BY DEF ElseUnchanged, IInv, HeapTyped, LabelsOwned, SourcesCopied

\* A map put over another is one.
LEMMA OverTyped ==
    ASSUME NEW entries \in Entries, NEW old \in Entries
    PROVE  Declared!Over(entries, old) \in Entries
BY DEF Entries, Declared!Entries, Declared!Over

\* A builder writes to its own map only.
LEMMA WithLabelsIInv ==
    ASSUME IInv, NEW b \in Builder, NEW m \in Passable, WithLabels(b, m)
    PROVE  IInv'
<1>. DEFINE at == LabelsOf(b, m)
<1>1. m \in CallerMap \cup Builder
  BY DEF Passable, IInv, LabelsOwned
<1>2. /\ labelsAt' = [labelsAt EXCEPT ![b] = at]
      /\ heap' = IF at = Nil THEN heap ELSE [heap EXCEPT ![at] = Declared!Over(heap[m], heap[at])]
      /\ UNCHANGED <<specs, sources>>
  BY DEF WithLabels
<1>3. at \in {b, Nil} /\ (at = Nil => labelsAt[b] = Nil)
  BY ConfigurationsAssumption DEF LabelsOf, IInv, LabelsOwned
<1>. HIDE DEF at
<1>4. HeapTyped'
  BY <1>1, <1>2, <1>3, OverTyped DEF IInv, HeapTyped
<1>5. LabelsOwned'
  BY <1>2, <1>3, ConfigurationsAssumption DEF IInv, LabelsOwned, HeapTyped
<1>6. SourcesCopied'
  BY <1>2 DEF IInv, SourcesCopied
<1>. QED  BY <1>4, <1>5, <1>6 DEF IInv

\* What is appended are templates, not addresses of source builders.
LEMMA WithSourcesIInv ==
    ASSUME IInv, NEW s \in SpecBuilder, NEW values \in Lists(SourceBuilder \cup {Nil}),
           WithSources(s, values)
    PROVE  IInv'
<1>. DEFINE kept == BeforeNil(values)
            added == [k \in DOMAIN kept |-> sources[kept[k]]]
<1>1. kept \in Seq(SourceBuilder)
  BY ListsAreSequences, AcceptedBeforeNil
<1>2. specs' = [specs EXCEPT ![s] = specs[s] \o added] /\ UNCHANGED <<heap, labelsAt, sources>>
  BY DEF WithSources, Element
<1>. HIDE DEF kept
<1>3. added \in Seq(TemplateBuilder \cup {Nil})
  BY <1>1 DEF IInv, SourcesCopied
<1>. HIDE DEF added
<1>4. SourcesCopied'
  BY <1>2, <1>3 DEF IInv, SourcesCopied
<1>. QED  BY <1>2, <1>4 DEF IInv, HeapTyped, LabelsOwned

\* A source builder gets another template; the specs have theirs.
LEMMA WithTemplateIInv ==
    ASSUME IInv, NEW o \in SourceBuilder, NEW p \in TemplateBuilder, WithTemplate(o, p)
    PROVE  IInv'
BY DEF WithTemplate, IInv, HeapTyped, LabelsOwned, SourcesCopied

\* The caller's maps are no builder's.
LEMMA CallerPutsIInv ==
    ASSUME IInv, NEW m \in CallerMap, NEW k \in Key, NEW v \in Value, CallerPuts(m, k, v)
    PROVE  IInv'
<1>1. /\ heap' = [heap EXCEPT ![m] = [heap[m] EXCEPT ![k] = v]]
      /\ UNCHANGED <<labelsAt, specs, sources>>
  BY DEF CallerPuts
<1>2. [heap[m] EXCEPT ![k] = v] \in Entries
  BY DEF IInv, HeapTyped, Entries, Declared!Entries
<1>3. HeapTyped'
  BY <1>1, <1>2 DEF IInv, HeapTyped
<1>4. LabelsOwned'
  BY <1>1, ConfigurationsAssumption DEF IInv, LabelsOwned, HeapTyped
<1>. QED  BY <1>1, <1>3, <1>4 DEF IInv, SourcesCopied

\* Every step keeps the inductive invariant.
LEMMA IInvStep == IInv /\ [Next]_vars => IInv'
<1>. SUFFICES ASSUME IInv, [Next]_vars PROVE IInv'
  OBVIOUS
<1>1. CASE ElseUnchanged
  BY <1>1, ElseIInv
<1>2. CASE \E b \in Builder, m \in Passable : WithLabels(b, m)
  BY <1>2, WithLabelsIInv
<1>3. CASE \E s \in SpecBuilder, values \in Lists(SourceBuilder \cup {Nil}) :
              WithSources(s, values)
  BY <1>3, WithSourcesIInv
<1>4. CASE \E o \in SourceBuilder, p \in TemplateBuilder : WithTemplate(o, p)
  BY <1>4, WithTemplateIInv
<1>5. CASE \E m \in CallerMap, k \in Key, v \in Value : CallerPuts(m, k, v)
  BY <1>5, CallerPutsIInv
<1>. QED
  BY <1>1, <1>2, <1>3, <1>4, <1>5
     DEF Next, vars, ElseUnchanged, InitTarget, InitTemplate, New, InitTargetWith,
         InitTemplateWith, SetField, WithFinalizers, WithOwnerReferences, WithSpec,
         TemplateWithName

\* The inductive invariant holds always.
LEMMA Invariance == Spec => []IInv
BY InitIInv, IInvStep, PTL DEF Spec

(***************************************************************************)
(* The steps of Configurations                                             *)
(***************************************************************************)

\* The variables of Configurations that a call with nothing to do with labels,
\* specs and sources leaves alone.
LEMMA ElseMapped ==
    ASSUME ElseUnchanged
    PROVE  UNCHANGED <<CallersMaps, SentLabels, SentSources>>
BY DEF ElseUnchanged, CallersMaps, SentLabels, SentSources, Labels, Sources, TemplateOf

\* Initial states map to initial states.
LEMMA MapsInit == Init => Declared!Init
<1>. SUFFICES ASSUME Init PROVE Declared!Init
  OBVIOUS
<1>1. SentLabels = [b \in Builder |-> NoEntries] /\ SentSources = [s \in SpecBuilder |-> <<>>]
  BY InitIInv, Mapping, ConfigurationsAssumption DEF Init
<1>2. CallersMaps = [m \in CallerMap |-> NoEntries]
  BY DEF Init, CallersMaps
<1>. QED
  BY <1>1, <1>2
     DEF Init, Declared!Init, SentLabels, SentSources, CallersMaps, Builder, Field, NoEntries

\* A constructor.
LEMMA NewMaps ==
    ASSUME NEW b \in Builder, NEW kind, NEW v \in Value, New(b, kind, v)
    PROVE  Declared!Construct(b, kind, v)
<1>1. ElseUnchanged
  BY DEF New, ElseUnchanged
<1>. QED
  BY <1>1, ElseMapped
     DEF New, Declared!Construct, SentLabels, SentSources, CallersMaps, Field

\* A scalar field.
LEMMA SetFieldMaps ==
    ASSUME NEW b \in Builder, NEW f \in Field, NEW v \in Value, SetField(b, f, v)
    PROVE  Declared!SetField(b, f, v)
<1>1. ElseUnchanged
  BY DEF SetField, ElseUnchanged
<1>. QED
  BY <1>1, ElseMapped
     DEF SetField, Declared!SetField, SentLabels, SentSources, CallersMaps

\* Finalizers.
LEMMA WithFinalizersMaps ==
    ASSUME NEW b \in Builder, NEW values, WithFinalizers(b, values)
    PROVE  Declared!AppendFinalizers(b, values)
<1>1. ElseUnchanged
  BY DEF WithFinalizers, ElseUnchanged
<1>. QED
  BY <1>1, ElseMapped
     DEF WithFinalizers, Declared!AppendFinalizers, SentLabels, SentSources, CallersMaps

\* Owner references, up to the first nil.
LEMMA WithOwnerReferencesMaps ==
    ASSUME NEW b \in Builder, NEW values \in Lists(Value \cup {Nil}),
           WithOwnerReferences(b, values)
    PROVE  Declared!AppendOwners(b, values)
<1>1. ElseUnchanged
  BY DEF WithOwnerReferences, ElseUnchanged
<1>2. BeforeNil(values) \in Declared!Accepted(values)
  BY ListsAreSequences, AcceptedBeforeNil
<1>. QED
  BY <1>1, <1>2, ElseMapped
     DEF WithOwnerReferences, Declared!AppendOwners, SentLabels, SentSources, CallersMaps

\* The spec.
LEMMA WithSpecMaps ==
    ASSUME NEW b \in Builder, NEW s \in SpecBuilder, WithSpec(b, s)
    PROVE  Declared!SetSpec(b, s)
<1>1. ElseUnchanged
  BY DEF WithSpec, ElseUnchanged
<1>. QED
  BY <1>1, ElseMapped
     DEF WithSpec, metaVars, Declared!SetSpec, SentLabels, SentSources, CallersMaps

\* The name in a template.
LEMMA TemplateWithNameMaps ==
    ASSUME NEW p \in TemplateBuilder, NEW v \in Value, TemplateWithName(p, v)
    PROVE  Declared!NameTemplate(p, v)
<1>1. ElseUnchanged
  BY DEF TemplateWithName, ElseUnchanged
<1>. QED
  BY <1>1, ElseMapped
     DEF TemplateWithName, metaVars, Declared!NameTemplate, SentLabels, SentSources, CallersMaps

\* The labels of one builder change by the entries passed; the map they are
\* passed in and the labels of every other builder stay.
LEMMA WithLabelsMaps ==
    ASSUME IInv, IInv', NEW b \in Builder, NEW m \in Passable, WithLabels(b, m)
    PROVE  Declared!PutLabels(b, heap[m])
<1>. DEFINE at == LabelsOf(b, m)
<1>1. m \in CallerMap \cup Builder
  BY DEF Passable, IInv, LabelsOwned
<1>2. heap' = IF at = Nil THEN heap ELSE [heap EXCEPT ![at] = Declared!Over(heap[m], heap[at])]
  BY DEF WithLabels
<1>3. at \in {b, Nil} /\ (at = Nil => heap[m] = NoEntries)
  BY ConfigurationsAssumption DEF LabelsOf, IInv, LabelsOwned
<1>. HIDE DEF at
<1>4. heap' = [heap EXCEPT ![b] = Declared!Over(heap[m], heap[b])]
  <2>1. CASE at = b
    BY <1>2, <2>1, ConfigurationsAssumption
  <2>2. CASE at = Nil
    <3>1. Declared!Over(NoEntries, heap[b]) = heap[b]
      BY DEF IInv, HeapTyped, Entries, Declared!Entries, Declared!Over, NoEntries,
             Declared!NoEntries
    <3>. QED  BY <1>2, <1>3, <2>2, <3>1 DEF IInv, HeapTyped
  <2>. QED  BY <1>3, <2>1, <2>2
<1>5. /\ SentLabels' = [SentLabels EXCEPT ![b] = Declared!Over(heap[m], SentLabels[b])]
      /\ SentLabels[b] = heap[b]
  BY <1>4, Mapping, MappingNext DEF IInv, HeapTyped
<1>6. CallersMaps' = CallersMaps
  BY <1>4, ConfigurationsAssumption DEF CallersMaps, IInv, HeapTyped
<1>7. SentSources' = SentSources
  BY Mapping, MappingNext DEF WithLabels
<1>. QED
  BY <1>5, <1>6, <1>7
     DEF WithLabels, metaVars, Declared!PutLabels, SentLabels, SentSources, CallersMaps

\* The sources, up to the first nil, with the templates they have now.
LEMMA WithSourcesMaps ==
    ASSUME IInv, IInv', NEW s \in SpecBuilder,
           NEW values \in Lists(SourceBuilder \cup {Nil}), WithSources(s, values)
    PROVE  Declared!AppendSources(s, values)
<1>. DEFINE kept == BeforeNil(values)
<1>1. kept \in Declared!Accepted(values)
  BY ListsAreSequences, AcceptedBeforeNil
<1>2. specs' = [specs EXCEPT ![s] = specs[s] \o [k \in DOMAIN kept |-> sources[kept[k]]]]
  BY DEF WithSources, Element
<1>3. SentSources' =
          [SentSources EXCEPT ![s] = SentSources[s] \o [k \in DOMAIN kept |-> sources[kept[k]]]]
  BY <1>2, Mapping, MappingNext
<1>4. UNCHANGED <<CallersMaps, SentLabels>>
  BY Mapping, MappingNext DEF WithSources, CallersMaps
<1>. HIDE DEF kept
<1>. QED
  BY <1>1, <1>3, <1>4
     DEF WithSources, metaVars, Declared!AppendSources, SentLabels, SentSources, CallersMaps

\* The template of a source builder, and of no spec.
LEMMA WithTemplateMaps ==
    ASSUME IInv, IInv', NEW o \in SourceBuilder, NEW p \in TemplateBuilder, WithTemplate(o, p)
    PROVE  Declared!ChooseTemplate(o, p)
<1>1. UNCHANGED <<CallersMaps, SentLabels, SentSources>>
  BY Mapping, MappingNext DEF WithTemplate, CallersMaps
<1>. QED
  BY <1>1 DEF WithTemplate, metaVars, Declared!ChooseTemplate, SentLabels, SentSources, CallersMaps

\* The caller's map, and no builder's.
LEMMA CallerPutsMaps ==
    ASSUME IInv, IInv', NEW m \in CallerMap, NEW k \in Key, NEW v \in Value, CallerPuts(m, k, v)
    PROVE  Declared!CallerPuts(m, k, v)
<1>1. heap' = [heap EXCEPT ![m] = [heap[m] EXCEPT ![k] = v]]
  BY DEF CallerPuts
<1>2. SentLabels' = SentLabels
  BY <1>1, Mapping, MappingNext, ConfigurationsAssumption DEF IInv, HeapTyped
<1>3. SentSources' = SentSources
  BY Mapping, MappingNext DEF CallerPuts
<1>4. CallersMaps' = [CallersMaps EXCEPT ![m] = [CallersMaps[m] EXCEPT ![k] = v]]
  BY <1>1 DEF CallersMaps, IInv, HeapTyped
<1>. QED
  BY <1>2, <1>3, <1>4
     DEF CallerPuts, metaVars, Declared!CallerPuts, SentLabels, SentSources, CallersMaps

\* A stutter.
LEMMA Unchanged == ASSUME UNCHANGED vars PROVE UNCHANGED Declared!vars
<1>1. ElseUnchanged
  BY DEF vars, ElseUnchanged
<1>. QED
  BY <1>1, ElseMapped
     DEF vars, metaVars, Declared!vars, SentLabels, SentSources, CallersMaps

\* What is passed to WithLabels are the entries of a caller's map, or the labels
\* of a builder.
LEMMA PassedEntries ==
    ASSUME IInv, NEW m \in Passable
    PROVE  \/ m \in CallerMap /\ heap[m] = CallersMaps[m]
           \/ \E other \in Builder : heap[m] = SentLabels[other]
<1>1. CASE m \in CallerMap
  BY <1>1 DEF CallersMaps
<1>2. CASE m \notin CallerMap
  <2>1. m \in Builder
    BY <1>2 DEF Passable, IInv, LabelsOwned
  <2>. QED  BY <2>1, Mapping
<1>. QED  BY <1>1, <1>2

\* Every step maps to a step ...
LEMMA MapsNext == ASSUME IInv, IInv', Next PROVE Declared!Next
<1>1. CASE \E b \in Builder, v \in Value : InitTarget(b, v) \/ InitTemplate(b, v)
  BY <1>1, NewMaps DEF InitTarget, InitTemplate, Declared!Next, Builder
<1>2. CASE \E b \in Builder, f \in Field, v \in Value :
              InitTargetWith(b, f, v) \/ InitTemplateWith(b, f, v)
  BY <1>2, SetFieldMaps DEF InitTargetWith, InitTemplateWith, Declared!Next, Builder, Field
<1>3. CASE \E b \in Builder, m \in Passable : WithLabels(b, m)
  <2>1. PICK b \in Builder, m \in Passable : WithLabels(b, m)
    BY <1>3
  <2>2. Declared!PutLabels(b, heap[m])
    BY <2>1, WithLabelsMaps
  <2>3. \/ \E map \in CallerMap : Declared!PutLabels(b, CallersMaps[map])
        \/ \E other \in Builder : Declared!PutLabels(b, SentLabels[other])
    BY <2>2, PassedEntries
  <2>. QED  BY <2>3 DEF Declared!Next, CallersMaps, SentLabels, Builder
<1>4. CASE \E b \in Builder, values \in Lists(Value) : WithFinalizers(b, values)
  BY <1>4, WithFinalizersMaps DEF Declared!Next, Builder, Lists
<1>5. CASE \E b \in Builder, values \in Lists(Value \cup {Nil}) : WithOwnerReferences(b, values)
  BY <1>5, WithOwnerReferencesMaps DEF Declared!Next, Builder, Lists
<1>6. CASE \E b \in Builder, s \in SpecBuilder : WithSpec(b, s)
  BY <1>6, WithSpecMaps DEF Declared!Next, Builder
<1>7. CASE \E s \in SpecBuilder, values \in Lists(SourceBuilder \cup {Nil}) :
              WithSources(s, values)
  BY <1>7, WithSourcesMaps DEF Declared!Next, Lists
<1>8. CASE \E o \in SourceBuilder, p \in TemplateBuilder : WithTemplate(o, p)
  BY <1>8, WithTemplateMaps DEF Declared!Next
<1>9. CASE \E p \in TemplateBuilder, v \in Value : TemplateWithName(p, v)
  BY <1>9, TemplateWithNameMaps DEF Declared!Next
<1>10. CASE \E m \in CallerMap, k \in Key, v \in Value : CallerPuts(m, k, v)
  BY <1>10, CallerPutsMaps DEF Declared!Next
<1>. QED
  BY <1>1, <1>2, <1>3, <1>4, <1>5, <1>6, <1>7, <1>8, <1>9, <1>10 DEF Next

\* ... or to a stutter.
LEMMA MapsStep == IInv /\ IInv' /\ [Next]_vars => [Declared!Next]_Declared!vars
BY MapsNext, Unchanged

\* The builders keep what the doc comments promise: however often, and to
\* however many of them, maps, sources, specs and templates are passed, a call
\* says something about its own builder alone (inittarget.go:45-209,
\* inittargetspec.go:42-53).
THEOREM BuildersKeepPromises == Spec => CallsSayWhatTheyPromise
<1>1. Init => Declared!Init
  BY MapsInit
<1>2. IInv /\ IInv' /\ [Next]_vars => [Declared!Next]_Declared!vars
  BY MapsStep
<1>. QED
  BY <1>1, <1>2, Invariance, PTL DEF Spec, Declared!Spec, CallsSayWhatTheyPromise
=============================================================================
