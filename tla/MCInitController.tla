-------------------------- MODULE MCInitController --------------------------
(***************************************************************************)
(* Objects, templates and InitTargets for the runs of InitController: two  *)
(* CRDs, an object of the kind of each, a Namespace, and a ConfigMap in    *)
(* it, like the first of the two objects.                                  *)
(***************************************************************************)
EXTENDS InitController, TLC

CONSTANTS crd, crd2, cr, cr2, ns, cm, t1, t2, i1, i2

MCObject == {crd, crd2, cr, cr2, ns, cm}

MCGroupKind ==
    [obj \in {crd, crd2} |-> "customresourcedefinition.apiextensions.k8s.io"]
    @@ ns :> "namespace" @@ cm :> "configmap"
    @@ cr :> "widget.example.io" @@ cr2 :> "gadget.example.io"

MCProvidedBy == cr :> crd @@ cr2 :> crd2 @@ [obj \in MCObject |-> BuiltIn]
MCNamespaceOf == cr :> ns @@ cm :> ns @@ [obj \in MCObject |-> BuiltIn]

MCTemplate == {t1, t2}

NoTexts == {}
NoSourceLists == {}

Setup(sources1, sources2, text1, text2) ==
    [targets |-> [i \in Initializer |-> IF i = i1 THEN sources1 ELSE sources2],
     templates |-> t1 :> text1 @@ t2 :> text2]

\* The second initializer has to wait for the namespace that the first one
\* brings; the first one's widget comes before its CRD.
Dependent == Setup(<<t1, t2>>, <<t2>>, {ns, cr, EmptyDoc}, {crd, cm})

\* Each initializer has an object of a kind that the other one provides.
Mutual == Setup(<<t1>>, <<t2>>, {cr2, crd}, {ns, cr, crd2})

\* The second source of the first target is not YAML.
Unreadable == Setup(<<t1, t2>>, <<t1>>, {ns, cm}, {crd, BrokenDoc})

\* The CRD comes from a later source than the objects of its kind, and the second
\* initializer has nothing but such an object.
LateKind == Setup(<<t1, t2>>, <<t1>>, {cr2}, {crd2, ns})

PairSetups == {Dependent, Mutual, Unreadable, LateKind}

\* The InitTarget, there or still missing, and its templates are being edited.
Edited == {Setup(sources, NoTarget, {ns, cr, EmptyDoc}, NoTemplate) :
              sources \in {<<t1, t2>>, NoTarget}}
EditedTexts == {{crd, cm}, {ns, cm}, {crd, BrokenDoc}, BrokenTemplate}
EditedSourceLists == {<<t1, t2>>, <<t2>>, <<t2, NoSource>>, <<>>}

\* The second CRD comes from elsewhere, in some clusters perhaps never.
Shared == {Setup(<<t1>>, NoTarget, {cr2}, NoTemplate)}


EditedOrShared == Edited \cup Shared
=============================================================================
