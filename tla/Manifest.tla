------------------------------ MODULE Manifest ------------------------------
(***************************************************************************)
(* The manifests of an init source (internal/manifest, and the rendering   *)
(* of internal/initialize/source/inittemplate that feeds it).              *)
(*                                                                         *)
(* A template's text is abstracted to the set of YAML documents it renders *)
(* to; a document is an object, empty, or not YAML at all.                 *)
(***************************************************************************)
EXTENDS Naturals, Sequences

CONSTANTS
    Object,        \* the Kubernetes objects templates can yield
    GroupKind,     \* the lower-case group kind of each object
    EmptyDoc,      \* a YAML document without content
    BrokenDoc,     \* a document the decoder rejects
    BrokenTemplate \* the text of a template that does not parse or execute

ASSUME ManifestAssumption ==
    /\ DOMAIN GroupKind = Object
    /\ EmptyDoc \notin Object /\ BrokenDoc \notin Object

Document == Object \cup {EmptyDoc, BrokenDoc}
-----------------------------------------------------------------------------
weights == << "customresourcedefinition.apiextensions.k8s.io",
              "apiexport.apis.kcp.io",
              "apibinding.apis.kcp.io",
              "namespace" >>

\* The position of the object's kind in weights; every other kind comes last.
objectWeight(obj) ==
    IF \E k \in DOMAIN weights : weights[k] = GroupKind[obj]
    THEN (CHOOSE k \in DOMAIN weights : weights[k] = GroupKind[obj]) - 1
    ELSE Len(weights)

\* Mutant: the manifests are applied in whatever order the template has them.
Bug_SortObjectsByHierarchy(objects) == objects

\* The objects that may come first once objects are sorted.  SortFunc is not
\* stable, so objects of the same weight come in any order.
SortObjectsByHierarchy(objects) ==
    {obj \in objects : \A other \in objects : objectWeight(obj) <= objectWeight(other)}

\* A template yields manifests when it renders and every document decodes.
Renders(template) == template # BrokenTemplate /\ BrokenDoc \notin template

\* Mutant: empty documents become manifests.
Bug_Manifests(template) == template

\* ParseYAML keeps the documents that are not empty.
Manifests(template) == template \ {EmptyDoc}
=============================================================================
