------------------------ MODULE InitControllerProofs ------------------------
(***************************************************************************)
(* Proofs about InitController, for any number of clusters, initializers,  *)
(* objects, templates, workers, edits, faults and restarts.                *)
(*                                                                         *)
(* The argument.  ViewLags: what a manager sees of a cluster is an old     *)
(* value of a list that only shrinks, so a change that a manager has not   *)
(* seen leaves a difference, and with it an event to come: a cluster is    *)
(* not forgotten.  AppliedSoFar: as long as no requeue is wanted, all that *)
(* a pass has read exists except what it still has to do, so at its end    *)
(* everything exists.  AsConfigured: without edits what a pass has read is *)
(* what the InitTarget and the templates say.                              *)
(***************************************************************************)
EXTENDS InitController, TLAPS

\* Only clusters that are there carry initializers, and nobody knows of a cluster
\* before it is created.
NewUnknown ==
    \A c \in Cluster :
        /\ status[c] # "present" => initializers[c] = {}
        /\ status[c] = "new" => \A i \in Initializer : view[i][c] = {} /\ ~Running(i, c)

\* A view that shows a cluster shows every initializer the cluster still carries.
ViewLags ==
    \A i \in Initializer, c \in Cluster : view[i][c] = {} \/ Shown(i, c) \subseteq view[i][c]

\* What holds of a pass at each of its program points.
PassShape ==
    \A i \in Initializer, c \in Cluster : Running(i, c) =>
        LET pass == passes[i][c] IN
        /\ pass.pc # "apply" => pass.todo = {}
        /\ pass.pc = "target" => pass.sources = <<>> /\ pass.rendered = <<>>
        /\ Len(pass.rendered) <= Len(pass.sources)
        /\ pass.pc = "apply" =>
              /\ Len(pass.rendered) > 0
              /\ pass.todo \subseteq pass.rendered[Len(pass.rendered)]

\* Everything a pass has read exists, but for what it still has to do and what
\* it has left for a requeue.
AppliedSoFar ==
    \A i \in Initializer, c \in Cluster : Running(i, c) /\ status[c] = "present" =>
        LET pass == passes[i][c] IN
        /\ ~pass.requeue =>
              \A k \in DOMAIN pass.rendered : pass.rendered[k] \ pass.todo \subseteq objects[c]
        /\ pass.pc = "apply" =>
              pass.rendered[Len(pass.rendered)] \ pass.todo \subseteq objects[c]

\* The pass has read the target and the templates as they are.
AsRead(i, pass) ==
    /\ targets[i] # NoTarget /\ pass.sources = targets[i]
    /\ \A k \in DOMAIN pass.rendered :
          /\ Readable(pass.sources[k])
          /\ pass.rendered[k] = Manifests(templates[pass.sources[k]])

\* Without edits that is so of every pass.
AsConfigured ==
    edits = 0 =>
        \A i \in Initializer :
            /\ cached[i] # NoTarget => cached[i] = targets[i]
            /\ \A c \in Cluster :
                  Running(i, c) /\ passes[i][c].pc # "target" => AsRead(i, passes[i][c])

IInv ==
    /\ TypeOK /\ NewUnknown /\ ViewLags /\ NeverForgotten
    /\ PassShape /\ AppliedSoFar /\ AsConfigured
-----------------------------------------------------------------------------
(* Lemmas about the operators.                                             *)

\* A weight is a position in the list, or behind it.
LEMMA WeightType == \A obj \in Object : objectWeight(obj) \in Nat
<1> DEFINE Fits(obj, k) == weights[k] = GroupKind[obj]
<1> SUFFICES ASSUME NEW obj \in Object PROVE objectWeight(obj) \in Nat
  OBVIOUS
<1>1. DOMAIN weights = 1..4 /\ Len(weights) = 4
  BY DEF weights
<1>2. CASE \E k \in DOMAIN weights : Fits(obj, k)
  <2>1. (CHOOSE k \in DOMAIN weights : Fits(obj, k)) \in 1..4
    BY <1>1, <1>2
  <2> QED
    BY <1>2, <2>1 DEF objectWeight
<1>3. CASE ~ \E k \in DOMAIN weights : Fits(obj, k)
  BY <1>1, <1>3 DEF objectWeight
<1> QED
  BY <1>2, <1>3

\* A readable source yields objects.
LEMMA ReadableYieldsObjects ==
    ASSUME TypeOK, NEW source \in Source, Readable(source)
    PROVE  source \in Template /\ Manifests(templates[source]) \subseteq Object
<1>1. source \in Template
  BY DEF Readable, Source
<1>2. templates[source] \in SUBSET Document
  BY <1>1 DEF Readable, Renders, TypeOK
<1> QED
  BY <1>1, <1>2 DEF Readable, Renders, Manifests, Document

\* The source a pass reads next is one of its sources.
LEMMA NextSourceType ==
    ASSUME TypeOK, NEW i \in Initializer, NEW c \in Cluster, AtSource(i, c)
    PROVE  /\ passes[i][c] \in Pass
           /\ NextSource(passes[i][c]) \in Source
           /\ Len(passes[i][c].rendered) \in Nat
<1>1. passes[i][c] \in Pass
  BY DEF TypeOK, AtSource, Running
<1>2. /\ passes[i][c].sources \in Seq(Source)
      /\ passes[i][c].rendered \in Seq(SUBSET Object)
  BY <1>1 DEF Pass
<1> QED
  BY <1>1, <1>2 DEF AtSource, NextSource

\* A pass that begins has the type of a pass.
LEMMA FreshPassType ==
    \A snapshot \in SUBSET Initializer :
        [pc |-> "target", snapshot |-> snapshot, sources |-> <<>>, rendered |-> <<>>,
         todo |-> {}, requeue |-> FALSE] \in Pass
  BY DEF Pass
LEMMA ContinueType ==
    ASSUME TypeOK, NEW i \in Initializer, NEW c \in Cluster,
           NEW pass \in Pass \cup {NoPass}, Continue(i, c, pass)
    PROVE  passes' \in [Initializer -> [Cluster -> Pass \cup {NoPass}]]
  BY DEF TypeOK, Continue

\* A pass that is requeued leaves passes and queue of their types.
LEMMA RequeueType ==
    ASSUME TypeOK, NEW i \in Initializer, NEW c \in Cluster, Requeue(i, c)
    PROVE  /\ passes' \in [Initializer -> [Cluster -> Pass \cup {NoPass}]]
           /\ queue' \in [Initializer -> SUBSET Cluster]
<1>1. Continue(i, c, NoPass)
  BY DEF Requeue, EndPass
<1>2. queue' \in [Initializer -> SUBSET Cluster]
  BY DEF Requeue, TypeOK
<1> QED
  BY <1>1, <1>2, ContinueType
-----------------------------------------------------------------------------
(* Types.                                                                  *)

\* At the start everything has its type.
LEMMA InitType == Init => TypeOK
<1> SUFFICES ASSUME Init PROVE TypeOK
  OBVIOUS
<1>1. /\ targets \in [Initializer -> Seq(Source) \cup {NoTarget}]
      /\ templates \in [Template -> (SUBSET Document) \cup {NoTemplate, BrokenTemplate}]
  BY SetupsAssumption DEF Init
<1> QED
  BY <1>1, InitControllerAssumption
     DEF Init, TypeOK, NothingCached, NothingVisible, NothingQueued, NothingRunning

\* Every step keeps the types.
LEMMA TypeStep == TypeOK /\ [Next]_vars => TypeOK'
<1> SUFFICES ASSUME TypeOK, [Next]_vars PROVE TypeOK'
  OBVIOUS
<1> USE DEF TypeOK
<1>1. ASSUME NEW c \in Cluster, Workspaces(c) PROVE TypeOK'
  <2>1. CASE CreateCluster(c)
    BY <2>1 DEF CreateCluster, configVars, agentVars
  <2>2. CASE DeleteCluster(c)
    BY <2>2 DEF DeleteCluster, configVars, agentVars
  <2>3. ASSUME NEW obj \in Object, Establish(c, obj) PROVE TypeOK'
    BY <2>3 DEF Establish, configVars, agentVars
  <2>4. ASSUME NEW obj \in Foreign, Provide(c, obj) PROVE TypeOK'
    BY <2>4, InitControllerAssumption DEF Provide, configVars, agentVars
  <2> QED
    BY <1>1, <2>1, <2>2, <2>3, <2>4 DEF Workspaces
<1>2. CASE Administrator
  <2>1. ASSUME NEW i \in Initializer, NEW s \in SourceLists \cup {NoTarget}, EditTarget(i, s)
        PROVE  TypeOK'
    <3>1. s \in Seq(Source) \cup {NoTarget}
      BY InitControllerAssumption DEF Source
    <3> QED
      BY <2>1, <3>1, InitControllerAssumption DEF EditTarget, clusterVars, agentVars
  <2>2. ASSUME NEW t \in Template, NEW text \in Texts \cup {NoTemplate}, EditTemplate(t, text)
        PROVE  TypeOK'
    <3>1. text \in (SUBSET Document) \cup {NoTemplate, BrokenTemplate}
      BY InitControllerAssumption
    <3> QED
      BY <2>2, <3>1, InitControllerAssumption DEF EditTemplate, clusterVars, agentVars
  <2> QED
    BY <1>2, <2>1, <2>2 DEF Administrator
<1>3. ASSUME NEW i \in Initializer, TargetWatchEvent(i) PROVE TypeOK'
  BY <1>3 DEF TargetWatchEvent, clusterVars, configVars
<1>4. ASSUME NEW i \in Initializer, NEW c \in Cluster,
             WatchEvent(i, c) \/ Resync(i, c) \/ StartPass(i, c)
      PROVE  TypeOK'
  <2>1. CASE WatchEvent(i, c)
    BY <2>1 DEF WatchEvent, Shown, clusterVars, configVars
  <2>2. CASE Resync(i, c)
    BY <2>2 DEF Resync, clusterVars, configVars
  <2>3. CASE StartPass(i, c)
    <3> DEFINE fresh == [pc |-> "target", snapshot |-> view[i][c], sources |-> <<>>,
                         rendered |-> <<>>, todo |-> {}, requeue |-> FALSE]
    <3>0. view[i][c] \in SUBSET Initializer
      OBVIOUS
    <3>1. fresh \in Pass
      BY <3>0, FreshPassType
    <3>2. passes' = passes \/ Continue(i, c, fresh)
      BY <2>3 DEF StartPass, Continue
    <3> HIDE DEF fresh
    <3>3. passes' \in [Initializer -> [Cluster -> Pass \cup {NoPass}]]
      BY <3>1, <3>2, ContinueType
    <3> QED
      BY <2>3, <3>3 DEF StartPass, clusterVars, configVars
  <2> QED
    BY <1>4, <2>1, <2>2, <2>3
<1>5. ASSUME NEW i \in Initializer, NEW c \in Cluster, PassStep(i, c) PROVE TypeOK'
  <2>0. Running(i, c) => passes[i][c] \in Pass
    BY DEF Running
  <2>1. CASE ReadTarget(i, c)
    <3>1. CASE cached[i] = NoTarget
      BY <2>1, <3>1, RequeueType DEF ReadTarget, clusterVars, configVars
    <3>2. CASE cached[i] # NoTarget
      <4> DEFINE pass == [passes[i][c] EXCEPT !.pc = "sources", !.sources = cached[i]]
      <4>1. pass \in Pass
        BY <2>0, <2>1, <3>2 DEF ReadTarget, Pass
      <4>2. Continue(i, c, pass)
        BY <2>1, <3>2 DEF ReadTarget
      <4> HIDE DEF pass
      <4> QED
        BY <2>1, <3>2, <4>1, <4>2, ContinueType DEF ReadTarget, clusterVars, configVars
    <3> QED
      BY <3>1, <3>2
  <2>2. CASE ReadSource(i, c)
    <3> DEFINE manifests == Manifests(templates[NextSource(passes[i][c])])
               pass == [passes[i][c] EXCEPT
                           !.pc = IF manifests = {} THEN "sources" ELSE "apply",
                           !.rendered = Append(@, manifests),
                           !.todo = manifests]
    <3>1. passes[i][c] \in Pass /\ manifests \subseteq Object
      BY <2>2, NextSourceType, ReadableYieldsObjects DEF ReadSource
    <3>2. pass \in Pass
      <4> HIDE DEF manifests
      <4>1. Append(passes[i][c].rendered, manifests) \in Seq(SUBSET Object)
        BY <3>1 DEF Pass
      <4> QED
        BY <3>1, <4>1 DEF Pass
    <3>3. Continue(i, c, pass)
      BY <2>2 DEF ReadSource
    <3> HIDE DEF pass
    <3> QED
      BY <2>2, <3>2, <3>3, ContinueType DEF ReadSource, clusterVars, configVars
  <2>3. CASE ReadSourceFails(i, c)
    <3>1. faults' \in 0..MaxFaults
      BY <2>3, InitControllerAssumption DEF ReadSourceFails, Fault
    <3> QED
      BY <2>3, <3>1, RequeueType DEF ReadSourceFails, clusterVars, configVars
  <2>4. ASSUME NEW obj \in Object, ApplyObject(i, c, obj) PROVE TypeOK'
    <3> DEFINE rest == passes[i][c].todo \ {obj}
               pass == [passes[i][c] EXCEPT
                           !.pc = IF rest = {} THEN "sources" ELSE "apply", !.todo = rest]
    <3>1. pass \in Pass
      BY <2>0, <2>4 DEF ApplyObject, AtObject, Pass
    <3>2. Continue(i, c, pass)
      BY <2>4 DEF ApplyObject
    <3> HIDE DEF pass
    <3> QED
      BY <2>4, <3>1, <3>2, ContinueType DEF ApplyObject, configVars
  <2>5. ASSUME NEW obj \in Object, ApplyNoKindMatch(i, c, obj) PROVE TypeOK'
    <3> DEFINE pass == [passes[i][c] EXCEPT !.pc = "sources", !.todo = {}, !.requeue = TRUE]
    <3>1. pass \in Pass
      BY <2>0, <2>5 DEF ApplyNoKindMatch, AtObject, Pass
    <3>2. Continue(i, c, pass)
      BY <2>5 DEF ApplyNoKindMatch
    <3> HIDE DEF pass
    <3> QED
      BY <2>5, <3>1, <3>2, ContinueType DEF ApplyNoKindMatch, clusterVars, configVars
  <2>6. ASSUME NEW obj \in Object, ApplyFails(i, c, obj) PROVE TypeOK'
    <3>1. faults' \in 0..MaxFaults
      BY <2>6, InitControllerAssumption DEF ApplyFails, Fault
    <3>2. objects' \in [Cluster -> SUBSET Object]
      BY <2>6 DEF ApplyFails
    <3> QED
      BY <2>6, <3>1, <3>2, RequeueType DEF ApplyFails, configVars
  <2>7. CASE RequeueAfter(i, c)
    BY <2>7, RequeueType DEF RequeueAfter, clusterVars, configVars
  <2>8. CASE RemoveInitializer(i, c)
    <3>1. Continue(i, c, NoPass)
      BY <2>8 DEF RemoveInitializer, EndPass
    <3>2. initializers' \in [Cluster -> SUBSET Initializer]
      BY <2>8 DEF RemoveInitializer, PatchAccepted
    <3> QED
      BY <2>8, <3>1, <3>2, ContinueType DEF RemoveInitializer, configVars
  <2>9. CASE RemoveInitializerFails(i, c)
    <3>1. faults' \in 0..MaxFaults
      BY <2>9, InitControllerAssumption DEF RemoveInitializerFails, Fault
    <3>2. initializers' \in [Cluster -> SUBSET Initializer]
      <4>1. initializers' = initializers
            \/ initializers' = [initializers EXCEPT ![c] = initializers[c] \ {i}]
        BY <2>9 DEF RemoveInitializerFails, PatchAccepted
      <4> QED
        BY <4>1
    <3> QED
      BY <2>9, <3>1, <3>2, RequeueType DEF RemoveInitializerFails, configVars
  <2> QED
    BY <1>5, <2>1, <2>2, <2>3, <2>4, <2>5, <2>6, <2>7, <2>8, <2>9 DEF PassStep
<1>6. CASE Restart
  BY <1>6, InitControllerAssumption
     DEF Restart, NothingCached, NothingVisible, NothingQueued, NothingRunning,
         clusterVars, configVars
<1>7. CASE UNCHANGED vars
  BY <1>7 DEF vars, clusterVars, configVars, agentVars
<1> QED
  BY <1>1, <1>2, <1>3, <1>4, <1>5, <1>6, <1>7 DEF Next
-----------------------------------------------------------------------------
(* Steps.                                                                  *)

\* A pass goes on, or it has ended.
Advances(i, c) ==
    \/ ReadTarget(i, c) /\ cached[i] # NoTarget
    \/ ReadSource(i, c)
    \/ \E obj \in Object : ApplyObject(i, c, obj) \/ ApplyNoKindMatch(i, c, obj)

\* What a step of a pass leaves alone, and how it may end the pass.
PassStepEffect(i, c) ==
    /\ Running(i, c)
    /\ UNCHANGED <<status, kinds, templates, targets, edits, cached, view, crashes>>
    /\ \A j \in Initializer, d \in Cluster :
          j # i \/ d # c => passes'[j][d] = passes[j][d]
    /\ \A d \in Cluster : objects[d] \subseteq objects'[d]
    /\ \/ UNCHANGED initializers
       \/ initializers' = [initializers EXCEPT ![c] = initializers[c] \ {i}]
    /\ \A j \in Initializer : queue[j] \subseteq queue'[j]
    /\ \/ Advances(i, c)
       \/ passes'[i][c] = NoPass /\ (i \notin initializers'[c] \/ c \in queue'[i])

\* What a step of one pass may do: it belongs to one initializer and cluster.
LEMMA PassStepFrame ==
    ASSUME TypeOK, NEW i \in Initializer, NEW c \in Cluster, PassStep(i, c)
    PROVE  PassStepEffect(i, c)
<1> USE DEF TypeOK, PassStepEffect, Advances
<1>0. ASSUME Requeue(i, c)
      PROVE  /\ \A j \in Initializer, d \in Cluster :
                   j # i \/ d # c => passes'[j][d] = passes[j][d]
             /\ \A j \in Initializer : queue[j] \subseteq queue'[j]
             /\ passes'[i][c] = NoPass /\ c \in queue'[i]
  BY <1>0 DEF Requeue, EndPass, Continue
<1>1. CASE ReadTarget(i, c)
  <2>1. CASE cached[i] = NoTarget
    BY <1>1, <2>1, <1>0 DEF ReadTarget, clusterVars, configVars
  <2>2. CASE cached[i] # NoTarget
    BY <1>1, <2>2 DEF ReadTarget, Continue, clusterVars, configVars
  <2> QED
    BY <2>1, <2>2
<1>2. CASE ReadSource(i, c)
  BY <1>2 DEF ReadSource, AtSource, Continue, clusterVars, configVars
<1>3. CASE ReadSourceFails(i, c)
  BY <1>3, <1>0 DEF ReadSourceFails, AtSource, clusterVars, configVars
<1>4. ASSUME NEW obj \in Object, ApplyObject(i, c, obj) PROVE PassStepEffect(i, c)
  <2>1. /\ \A j \in Initializer, d \in Cluster :
              j # i \/ d # c => passes'[j][d] = passes[j][d]
        /\ \A d \in Cluster : objects[d] \subseteq objects'[d]
    BY <1>4 DEF ApplyObject, Continue
  <2> QED
    BY <1>4, <2>1 DEF ApplyObject, AtObject, configVars
<1>5. ASSUME NEW obj \in Object, ApplyNoKindMatch(i, c, obj) PROVE PassStepEffect(i, c)
  <2>1. \A j \in Initializer, d \in Cluster :
           j # i \/ d # c => passes'[j][d] = passes[j][d]
    BY <1>5 DEF ApplyNoKindMatch, Continue
  <2> QED
    BY <1>5, <2>1 DEF ApplyNoKindMatch, AtObject, clusterVars, configVars
<1>6. ASSUME NEW obj \in Object, ApplyFails(i, c, obj) PROVE PassStepEffect(i, c)
  <2>1. \A d \in Cluster : objects[d] \subseteq objects'[d]
    BY <1>6 DEF ApplyFails
  <2> QED
    BY <1>6, <2>1, <1>0 DEF ApplyFails, AtObject, configVars
<1>7. CASE RequeueAfter(i, c)
  BY <1>7, <1>0 DEF RequeueAfter, AtEnd, clusterVars, configVars
<1>8. CASE RemoveInitializer(i, c)
  <2>1. /\ initializers' = [initializers EXCEPT ![c] = initializers[c] \ {i}]
        /\ i \notin initializers'[c]
    BY <1>8 DEF RemoveInitializer, PatchAccepted
  <2>2. /\ \A j \in Initializer, d \in Cluster :
              j # i \/ d # c => passes'[j][d] = passes[j][d]
        /\ passes'[i][c] = NoPass
    BY <1>8 DEF RemoveInitializer, EndPass, Continue
  <2> QED
    BY <1>8, <2>1, <2>2 DEF RemoveInitializer, AtEnd, configVars
<1>9. CASE RemoveInitializerFails(i, c)
  <2>1. \/ UNCHANGED initializers
        \/ initializers' = [initializers EXCEPT ![c] = initializers[c] \ {i}]
    BY <1>9 DEF RemoveInitializerFails, PatchAccepted
  <2> QED
    BY <1>9, <2>1, <1>0 DEF RemoveInitializerFails, AtEnd, configVars
<1> QED
  BY <1>1, <1>2, <1>3, <1>4, <1>5, <1>6, <1>7, <1>8, <1>9 DEF PassStep

\* How a pass that goes on changes.
LEMMA AdvancesGoesOn ==
    ASSUME TypeOK, NEW i \in Initializer, NEW c \in Cluster, Advances(i, c)
    PROVE  Running(i, c)' /\ passes'[i][c] \in Pass
<1>1. passes[i][c] \in Pass
  <2>1. Running(i, c)
    BY DEF Advances, ReadTarget, ReadSource, AtSource, ApplyObject, ApplyNoKindMatch, AtObject
  <2> QED
    BY <2>1 DEF TypeOK, Running
<1>2. CASE ReadTarget(i, c) /\ cached[i] # NoTarget
  <2>1. passes'[i][c] = [passes[i][c] EXCEPT !.pc = "sources", !.sources = cached[i]]
    BY <1>2 DEF ReadTarget, Continue, TypeOK
  <2>2. cached[i] \in Seq(Source)
    BY <1>2 DEF TypeOK
  <2>3. passes'[i][c] \in Pass
    BY <1>1, <2>1, <2>2 DEF Pass
  <2> QED
    BY <2>3, NoPassAssumption DEF Running
<1>3. CASE ReadSource(i, c)
  <2> DEFINE manifests == Manifests(templates[NextSource(passes[i][c])])
  <2>1. manifests \subseteq Object
    BY <1>3, NextSourceType, ReadableYieldsObjects DEF ReadSource
  <2>2. passes'[i][c] =
           [passes[i][c] EXCEPT !.pc = IF manifests = {} THEN "sources" ELSE "apply",
                                !.rendered = Append(@, manifests),
                                !.todo = manifests]
    BY <1>3 DEF ReadSource, Continue, TypeOK
  <2> HIDE DEF manifests
  <2>3. Append(passes[i][c].rendered, manifests) \in Seq(SUBSET Object)
    BY <1>1, <2>1 DEF Pass
  <2>4. passes'[i][c] \in Pass
    BY <1>1, <2>1, <2>2, <2>3 DEF Pass
  <2> QED
    BY <2>4, NoPassAssumption DEF Running
<1>4. ASSUME NEW obj \in Object, ApplyObject(i, c, obj)
      PROVE  Running(i, c)' /\ passes'[i][c] \in Pass
  <2>1. passes'[i][c] =
           [passes[i][c] EXCEPT
               !.pc = IF passes[i][c].todo \ {obj} = {} THEN "sources" ELSE "apply",
               !.todo = passes[i][c].todo \ {obj}]
    BY <1>4 DEF ApplyObject, Continue, TypeOK
  <2>2. passes'[i][c] \in Pass
    BY <1>1, <2>1 DEF Pass
  <2> QED
    BY <2>2, NoPassAssumption DEF Running
<1>5. ASSUME NEW obj \in Object, ApplyNoKindMatch(i, c, obj)
      PROVE  Running(i, c)' /\ passes'[i][c] \in Pass
  <2>1. passes'[i][c] =
           [passes[i][c] EXCEPT !.pc = "sources", !.todo = {}, !.requeue = TRUE]
    BY <1>5 DEF ApplyNoKindMatch, Continue, TypeOK
  <2>2. passes'[i][c] \in Pass
    BY <1>1, <2>1 DEF Pass
  <2> QED
    BY <2>2, NoPassAssumption DEF Running
<1> QED
  BY <1>2, <1>3, <1>4, <1>5 DEF Advances

\* Nothing is known of a cluster before it is created.
LEMMA NewUnknownStep == TypeOK /\ NewUnknown /\ [Next]_vars => NewUnknown'
<1> SUFFICES ASSUME TypeOK, NewUnknown, [Next]_vars PROVE NewUnknown'
  OBVIOUS
<1> USE DEF TypeOK, NewUnknown, Running
<1>1. ASSUME NEW c \in Cluster, Workspaces(c) PROVE NewUnknown'
  <2>1. /\ UNCHANGED <<view, passes>>
        /\ \A d \in Cluster : status'[d] = "new" => status[d] = "new"
        /\ \A d \in Cluster : status'[d] # "present" => initializers'[d] = {}
    BY <1>1 DEF Workspaces, CreateCluster, DeleteCluster, Provide, Establish, agentVars
  <2> QED
    BY <2>1
<1>2. CASE Administrator
  BY <1>2 DEF Administrator, EditTarget, EditTemplate, clusterVars, agentVars
<1>3. ASSUME NEW i \in Initializer, TargetWatchEvent(i) PROVE NewUnknown'
  BY <1>3 DEF TargetWatchEvent, clusterVars
<1>4. ASSUME NEW i \in Initializer, NEW c \in Cluster,
             WatchEvent(i, c) \/ Resync(i, c) \/ StartPass(i, c)
      PROVE  NewUnknown'
  <2>1. CASE WatchEvent(i, c)
    <3>1. status[c] # "new"
      BY <2>1 DEF WatchEvent, Shown
    <3> QED
      BY <2>1, <3>1 DEF WatchEvent, clusterVars
  <2>2. CASE Resync(i, c)
    BY <2>2 DEF Resync, clusterVars
  <2>3. CASE StartPass(i, c)
    <3>1. /\ UNCHANGED <<status, initializers, view>>
          /\ \A j \in Initializer, d \in Cluster :
                j # i \/ d # c \/ view[i][c] = {} => passes'[j][d] = passes[j][d]
      BY <2>3 DEF StartPass, clusterVars
    <3> QED
      BY <3>1
  <2> QED
    BY <1>4, <2>1, <2>2, <2>3
<1>5. ASSUME NEW i \in Initializer, NEW c \in Cluster, PassStep(i, c) PROVE NewUnknown'
  <2>1. PassStepEffect(i, c)
    BY <1>5, PassStepFrame
  <2>2. \A d \in Cluster : initializers[d] = {} => initializers'[d] = {}
    <3>1. CASE UNCHANGED initializers
      BY <3>1
    <3>2. CASE initializers' = [initializers EXCEPT ![c] = initializers[c] \ {i}]
      <4>1. \A d \in Cluster : initializers'[d] = IF d = c THEN initializers[c] \ {i}
                                                           ELSE initializers[d]
        BY <3>2
      <4> QED
        BY <4>1
    <3> QED
      BY <2>1, <3>1, <3>2 DEF PassStepEffect
  <2>5. status[c] # "new"
    BY <2>1 DEF PassStepEffect
  <2>3. \A j \in Initializer, d \in Cluster : d # c => passes'[j][d] = passes[j][d]
    BY <2>1 DEF PassStepEffect
  <2>4. UNCHANGED <<status, view>>
    BY <2>1 DEF PassStepEffect
  <2> QED
    BY <2>2, <2>3, <2>4, <2>5
<1>6. CASE Restart
  BY <1>6 DEF Restart, NothingVisible, NothingRunning, clusterVars
<1>7. CASE UNCHANGED vars
  BY <1>7 DEF vars, clusterVars, agentVars
<1> QED
  BY <1>1, <1>2, <1>3, <1>4, <1>5, <1>6, <1>7 DEF Next

\* Views lag behind lists that only shrink, and changes to come keep a cluster alive.
LEMMA NeverForgottenStep ==
    TypeOK /\ NewUnknown /\ ViewLags /\ NeverForgotten /\ [Next]_vars
    => ViewLags' /\ NeverForgotten'
<1> SUFFICES ASSUME TypeOK, NewUnknown, ViewLags, NeverForgotten, [Next]_vars
             PROVE  ViewLags' /\ NeverForgotten'
  OBVIOUS
<1> USE DEF TypeOK, ViewLags, NeverForgotten, Running, Shown
<1>1. ASSUME NEW c \in Cluster, Workspaces(c) PROVE ViewLags' /\ NeverForgotten'
  <2>1. CASE CreateCluster(c)
    <3>1. \A i \in Initializer : view'[i][c] = {}
      BY <2>1 DEF NewUnknown, CreateCluster, agentVars
    <3>2. /\ UNCHANGED <<view, queue, passes>>
          /\ \A d \in Cluster : d # c => initializers'[d] = initializers[d]
      BY <2>1 DEF CreateCluster, agentVars
    <3> QED
      BY <3>1, <3>2
  <2>2. CASE DeleteCluster(c)
    <3>1. /\ UNCHANGED <<view, queue, passes>>
          /\ initializers'[c] = {}
          /\ \A d \in Cluster : d # c => initializers'[d] = initializers[d]
      BY <2>2 DEF DeleteCluster, agentVars
    <3> QED
      BY <3>1
  <2>3. CASE UNCHANGED <<initializers, view, queue, passes>>
    BY <2>3
  <2> QED
    BY <1>1, <2>1, <2>2, <2>3 DEF Workspaces, Provide, Establish, agentVars
<1>2. CASE Administrator
  BY <1>2 DEF Administrator, EditTarget, EditTemplate, clusterVars, agentVars
<1>3. ASSUME NEW i \in Initializer, TargetWatchEvent(i) PROVE ViewLags' /\ NeverForgotten'
  BY <1>3 DEF TargetWatchEvent, clusterVars
<1>4. ASSUME NEW i \in Initializer, NEW c \in Cluster, WatchEvent(i, c)
      PROVE  ViewLags' /\ NeverForgotten'
  <2>1. /\ UNCHANGED <<initializers, passes>>
        /\ view'[i][c] = Shown(i, c)
        /\ c \in queue'[i]
        /\ \A j \in Initializer : queue[j] \subseteq queue'[j]
        /\ \A j \in Initializer, d \in Cluster : j # i \/ d # c => view'[j][d] = view[j][d]
    BY <1>4 DEF WatchEvent, clusterVars
  <2>2. ViewLags'
    BY <2>1
  <2>3. NeverForgotten'
    <3> SUFFICES ASSUME NEW j \in Initializer, NEW d \in Cluster, j \in initializers'[d]
                 PROVE  \/ view'[j][d] # Shown(j, d)' \/ d \in queue'[j]
                        \/ passes'[j][d] # NoPass
      OBVIOUS
    <3>1. CASE j = i /\ d = c
      BY <2>1, <3>1
    <3>2. CASE j # i \/ d # c
      <4>1. view[j][d] # Shown(j, d) \/ d \in queue[j] \/ passes[j][d] # NoPass
        BY <2>1
      <4> QED
        BY <2>1, <3>2, <4>1
    <3> QED
      BY <3>1, <3>2
  <2> QED
    BY <2>2, <2>3
<1>5. ASSUME NEW i \in Initializer, NEW c \in Cluster, Resync(i, c)
      PROVE  ViewLags' /\ NeverForgotten'
  BY <1>5 DEF Resync, clusterVars
<1>6. ASSUME NEW i \in Initializer, NEW c \in Cluster, StartPass(i, c)
      PROVE  ViewLags' /\ NeverForgotten'
  <2>1. /\ UNCHANGED <<initializers, view>>
        /\ \A j \in Initializer, d \in Cluster :
              j # i \/ d # c => passes'[j][d] = passes[j][d] /\ (d \in queue[j] => d \in queue'[j])
    BY <1>6 DEF StartPass, clusterVars
  <2>2. i \in initializers[c] => view[i][c] # Shown(i, c) \/ passes'[i][c] # NoPass
    <3>1. CASE i \notin view[i][c]
      BY <3>1
    <3>2. CASE i \in view[i][c]
      <4>1. passes'[i][c] = [pc |-> "target", snapshot |-> view[i][c], sources |-> <<>>,
                             rendered |-> <<>>, todo |-> {}, requeue |-> FALSE]
        BY <1>6, <3>2 DEF StartPass
      <4>2. view[i][c] \in SUBSET Initializer
        OBVIOUS
      <4>3. passes'[i][c] \in Pass
        BY <4>1, <4>2, FreshPassType
      <4> QED
        BY <4>3, NoPassAssumption
    <3> QED
      BY <3>1, <3>2
  <2>3. NeverForgotten'
    <3> SUFFICES ASSUME NEW j \in Initializer, NEW d \in Cluster, j \in initializers'[d]
                 PROVE  \/ view'[j][d] # Shown(j, d)' \/ d \in queue'[j]
                        \/ passes'[j][d] # NoPass
      OBVIOUS
    <3>1. CASE j = i /\ d = c
      BY <2>1, <2>2, <3>1
    <3>2. CASE j # i \/ d # c
      <4>1. view[j][d] # Shown(j, d) \/ d \in queue[j] \/ passes[j][d] # NoPass
        BY <2>1
      <4> QED
        BY <2>1, <3>2, <4>1
    <3> QED
      BY <3>1, <3>2
  <2> QED
    BY <2>1, <2>3
<1>7. ASSUME NEW i \in Initializer, NEW c \in Cluster, PassStep(i, c)
      PROVE  ViewLags' /\ NeverForgotten'
  <2>1. PassStepEffect(i, c)
    BY <1>7, PassStepFrame
  <2>2. /\ UNCHANGED view
        /\ \A j \in Initializer, d \in Cluster :
              j # i \/ d # c => passes'[j][d] = passes[j][d]
        /\ \A j \in Initializer : queue[j] \subseteq queue'[j]
        /\ \A d \in Cluster : initializers'[d] \subseteq initializers[d]
        /\ \A d \in Cluster : d # c => initializers'[d] = initializers[d]
        /\ initializers'[c] = initializers[c] \/ initializers'[c] = initializers[c] \ {i}
    BY <2>1 DEF PassStepEffect
  <2>3. passes'[i][c] # NoPass \/ i \notin initializers'[c] \/ c \in queue'[i]
    <3>1. CASE Advances(i, c)
      BY <3>1, AdvancesGoesOn DEF Running
    <3> QED
      BY <2>1, <3>1 DEF PassStepEffect
  <2>4. ViewLags'
    BY <2>2
  <2>5. ASSUME NEW j \in Initializer, j # i, j \in initializers'[c]
        PROVE  view'[j][c] # Shown(j, c)' \/ c \in queue'[j] \/ passes'[j][c] # NoPass
    <3>1. view[j][c] # Shown(j, c) \/ c \in queue[j] \/ passes[j][c] # NoPass
      BY <2>2, <2>5
    <3>2. view[j][c] # Shown(j, c) => view'[j][c] # Shown(j, c)'
      BY <2>2, <2>5
    <3> QED
      BY <3>1, <3>2, <2>2, <2>5
  <2>6. NeverForgotten'
    BY <2>2, <2>3, <2>5
  <2> QED
    BY <2>4, <2>6
<1>8. CASE Restart
  BY <1>8 DEF Restart, NothingVisible, clusterVars
<1>9. CASE UNCHANGED vars
  BY <1>9 DEF vars, clusterVars, agentVars
<1> QED
  BY <1>1, <1>2, <1>3, <1>4, <1>5, <1>6, <1>7, <1>8, <1>9 DEF Next

Fresh(pass) ==
    pass.pc = "target" /\ pass.sources = <<>> /\ pass.rendered = <<>> /\ pass.todo = {}

\* A pass that runs after a step ran before, or is fresh.
LEMMA PassOrigin ==
    ASSUME TypeOK, NewUnknown, [Next]_vars, NEW i \in Initializer, NEW c \in Cluster,
           Running(i, c)'
    PROVE  \/ passes'[i][c] = passes[i][c]
           \/ Fresh(passes'[i][c]) /\ UNCHANGED status
           \/ Advances(i, c) /\ UNCHANGED <<status, edits, targets, templates, cached>>
<1> USE DEF TypeOK, Running
<1>1. ASSUME NEW d \in Cluster, Workspaces(d) PROVE UNCHANGED passes
  BY <1>1 DEF Workspaces, CreateCluster, DeleteCluster, Provide, Establish, agentVars
<1>2. Administrator => UNCHANGED passes
  BY DEF Administrator, EditTarget, EditTemplate, agentVars
<1>3. ASSUME NEW j \in Initializer, TargetWatchEvent(j) PROVE UNCHANGED passes
  BY <1>3 DEF TargetWatchEvent
<1>4. ASSUME NEW j \in Initializer, NEW d \in Cluster, WatchEvent(j, d) \/ Resync(j, d)
      PROVE  UNCHANGED passes
  BY <1>4 DEF WatchEvent, Resync
<1>5. ASSUME NEW j \in Initializer, NEW d \in Cluster, StartPass(j, d)
      PROVE  UNCHANGED status
             /\ (passes'[i][c] = passes[i][c] \/ Fresh(passes'[i][c]))
  BY <1>5 DEF StartPass, Fresh, clusterVars
<1>6. ASSUME NEW j \in Initializer, NEW d \in Cluster, PassStep(j, d)
      PROVE  \/ passes'[i][c] = passes[i][c]
             \/ Advances(i, c) /\ UNCHANGED <<status, edits, targets, templates, cached>>
  <2>1. PassStepEffect(j, d)
    BY <1>6, PassStepFrame
  <2> QED
    BY <2>1 DEF PassStepEffect
<1>7. CASE Restart
  BY <1>7 DEF Restart, NothingRunning
<1>8. CASE UNCHANGED vars
  BY <1>8 DEF vars, agentVars
<1> QED
  BY <1>1, <1>2, <1>3, <1>4, <1>5, <1>6, <1>7, <1>8 DEF Next

\* Objects go only with their cluster, and a deleted cluster does not come back.
LEMMA ObjectsStay ==
    ASSUME TypeOK, [Next]_vars, NEW c \in Cluster, status'[c] = "present"
    PROVE  status[c] # "gone" /\ objects[c] \subseteq objects'[c]
<1> USE DEF TypeOK
<1>1. ASSUME NEW d \in Cluster, Workspaces(d)
      PROVE  status[c] # "gone" /\ objects[c] \subseteq objects'[c]
  BY <1>1 DEF Workspaces, CreateCluster, DeleteCluster, Provide, Establish
<1>2. Administrator => UNCHANGED <<status, objects>>
  BY DEF Administrator, EditTarget, EditTemplate, clusterVars
<1>3. ASSUME NEW j \in Initializer, TargetWatchEvent(j) PROVE UNCHANGED <<status, objects>>
  BY <1>3 DEF TargetWatchEvent, clusterVars
<1>4. ASSUME NEW j \in Initializer, NEW d \in Cluster,
             WatchEvent(j, d) \/ Resync(j, d) \/ StartPass(j, d)
      PROVE  UNCHANGED <<status, objects>>
  BY <1>4 DEF WatchEvent, Resync, StartPass, clusterVars
<1>5. ASSUME NEW j \in Initializer, NEW d \in Cluster, PassStep(j, d)
      PROVE  UNCHANGED status /\ objects[c] \subseteq objects'[c]
  BY <1>5, PassStepFrame DEF PassStepEffect
<1>6. Restart => UNCHANGED <<status, objects>>
  BY DEF Restart, clusterVars
<1>7. UNCHANGED vars => UNCHANGED <<status, objects>>
  BY DEF vars, clusterVars
<1> QED
  BY <1>1, <1>2, <1>3, <1>4, <1>5, <1>6, <1>7 DEF Next

\* What a pass has read stays applied, at each of its steps.
LEMMA AppliedStep ==
    TypeOK /\ NewUnknown /\ PassShape /\ AppliedSoFar /\ [Next]_vars
    => PassShape' /\ AppliedSoFar'
<1> SUFFICES ASSUME TypeOK, NewUnknown, PassShape, AppliedSoFar, [Next]_vars,
                    NEW i \in Initializer, NEW c \in Cluster, Running(i, c)'
             PROVE  LET pass == passes'[i][c] IN
                    /\ pass.pc # "apply" => pass.todo = {}
                    /\ pass.pc = "target" => pass.sources = <<>> /\ pass.rendered = <<>>
                    /\ Len(pass.rendered) <= Len(pass.sources)
                    /\ pass.pc = "apply" =>
                          /\ Len(pass.rendered) > 0
                          /\ pass.todo \subseteq pass.rendered[Len(pass.rendered)]
                    /\ status'[c] = "present" =>
                          /\ ~pass.requeue => \A k \in DOMAIN pass.rendered :
                                pass.rendered[k] \ pass.todo \subseteq objects'[c]
                          /\ pass.pc = "apply" =>
                                pass.rendered[Len(pass.rendered)] \ pass.todo
                                \subseteq objects'[c]
  BY DEF PassShape, AppliedSoFar
<1>0. status'[c] = "present" => status[c] # "gone" /\ objects[c] \subseteq objects'[c]
  BY ObjectsStay
<1>1. CASE passes'[i][c] = passes[i][c]
  <2>1. Running(i, c)
    BY <1>1 DEF Running
  <2>2. status'[c] = "present" => status[c] = "present"
    BY <1>0, <2>1 DEF NewUnknown, TypeOK
  <2> QED
    BY <1>0, <1>1, <2>1, <2>2 DEF PassShape, AppliedSoFar
<1>2. CASE Fresh(passes'[i][c])
  BY <1>2 DEF Fresh
<1>3. CASE Advances(i, c) /\ UNCHANGED status
  <2> DEFINE pass == passes[i][c]
             next == passes'[i][c]
  <2>1. Running(i, c)
    BY <1>3 DEF Advances, ReadTarget, ReadSource, AtSource, ApplyObject, ApplyNoKindMatch,
                AtObject
  <2>2. pass \in Pass /\ pass.sources \in Seq(Source) /\ pass.rendered \in Seq(SUBSET Object)
    BY <2>1 DEF TypeOK, Running, Pass
  <2>3. /\ pass.pc # "apply" => pass.todo = {}
        /\ pass.pc = "target" => pass.sources = <<>> /\ pass.rendered = <<>>
        /\ Len(pass.rendered) <= Len(pass.sources)
        /\ pass.pc = "apply" =>
              /\ Len(pass.rendered) > 0
              /\ pass.todo \subseteq pass.rendered[Len(pass.rendered)]
    BY <2>1 DEF PassShape
  <2>4. status'[c] = "present" =>
           /\ ~pass.requeue => \A k \in DOMAIN pass.rendered :
                 pass.rendered[k] \ pass.todo \subseteq objects[c]
           /\ pass.pc = "apply" =>
                 pass.rendered[Len(pass.rendered)] \ pass.todo \subseteq objects[c]
    BY <1>3, <2>1 DEF AppliedSoFar
  <2>5. CASE ReadTarget(i, c) /\ cached[i] # NoTarget
    <3>1. next = [pass EXCEPT !.pc = "sources", !.sources = cached[i]]
      BY <2>5 DEF ReadTarget, Continue, TypeOK
    <3>2. pass.pc = "target" /\ cached[i] \in Seq(Source)
      BY <2>5 DEF ReadTarget, TypeOK
    <3> QED
      BY <2>2, <2>3, <3>1, <3>2 DEF Pass
  <2>6. CASE ReadSource(i, c)
    <3> DEFINE manifests == Manifests(templates[NextSource(pass)])
    <3>1. /\ next = [pass EXCEPT !.pc = IF manifests = {} THEN "sources" ELSE "apply",
                                 !.rendered = Append(@, manifests),
                                 !.todo = manifests]
          /\ pass.pc = "sources" /\ Len(pass.rendered) < Len(pass.sources)
      BY <2>6 DEF ReadSource, AtSource, Continue, TypeOK
    <3> HIDE DEF manifests
    <3>2. /\ next.pc = IF manifests = {} THEN "sources" ELSE "apply"
          /\ next.rendered = Append(pass.rendered, manifests)
          /\ next.todo = manifests
          /\ next.sources = pass.sources /\ next.requeue = pass.requeue
      BY <2>2, <3>1 DEF Pass
    <3>3. manifests \in SUBSET Object
      BY <2>6, NextSourceType, ReadableYieldsObjects DEF ReadSource, manifests
    <3> HIDE DEF next, pass
    <3>4. /\ Len(next.rendered) = Len(pass.rendered) + 1
          /\ next.rendered[Len(next.rendered)] = manifests
          /\ \A k \in DOMAIN next.rendered :
                \/ next.rendered[k] = manifests
                \/ k \in DOMAIN pass.rendered /\ next.rendered[k] = pass.rendered[k]
      BY <2>2, <3>2, <3>3
    <3>5. status'[c] = "present" /\ ~next.requeue =>
             \A k \in DOMAIN next.rendered : next.rendered[k] \ next.todo \subseteq objects'[c]
      BY <1>0, <2>3, <2>4, <3>1, <3>2, <3>4
    <3>6. Len(next.rendered) <= Len(next.sources) /\ Len(next.rendered) > 0
      BY <2>2, <3>1, <3>2, <3>4
    <3> QED
      BY <3>2, <3>4, <3>5, <3>6 DEF next
  <2>7. ASSUME NEW obj \in Object, ApplyObject(i, c, obj)
        PROVE  /\ next = [pass EXCEPT
                           !.pc = IF pass.todo \ {obj} = {} THEN "sources" ELSE "apply",
                           !.todo = pass.todo \ {obj}]
               /\ pass.pc = "apply" /\ obj \in objects'[c]
    BY <2>7 DEF ApplyObject, AtObject, Continue, TypeOK
  <2>8. ASSUME NEW obj \in Object, ApplyNoKindMatch(i, c, obj)
        PROVE  /\ next = [pass EXCEPT !.pc = "sources", !.todo = {}, !.requeue = TRUE]
               /\ pass.pc = "apply"
    BY <2>8 DEF ApplyNoKindMatch, AtObject, Continue, TypeOK
  <2>9. CASE \E obj \in Object : ApplyObject(i, c, obj)
    <3>1. PICK obj \in Object : ApplyObject(i, c, obj)
      BY <2>9
    <3> DEFINE rest == pass.todo \ {obj}
    <3>2. /\ next.pc = IF rest = {} THEN "sources" ELSE "apply"
          /\ next.todo = rest
          /\ next.rendered = pass.rendered /\ next.sources = pass.sources
          /\ next.requeue = pass.requeue
          /\ pass.pc = "apply" /\ obj \in objects'[c]
      BY <2>2, <2>7, <3>1 DEF Pass
    <3> HIDE DEF next, pass
    <3>3. \A set : set \ pass.todo \subseteq objects'[c] => set \ rest \subseteq objects'[c]
      BY <3>2
    <3>4. status'[c] = "present" =>
             /\ ~next.requeue => \A k \in DOMAIN next.rendered :
                   next.rendered[k] \ next.todo \subseteq objects'[c]
             /\ next.rendered[Len(next.rendered)] \ next.todo \subseteq objects'[c]
      BY <1>0, <2>4, <3>2, <3>3
    <3> QED
      BY <2>3, <3>2, <3>4 DEF next
  <2>10. CASE \E obj \in Object : ApplyNoKindMatch(i, c, obj)
    BY <2>2, <2>3, <2>8, <2>10 DEF Pass
  <2> QED
    BY <1>3, <2>5, <2>6, <2>9, <2>10 DEF Advances
<1> QED
  BY <1>1, <1>2, <1>3, PassOrigin

\* Without edits what a pass reads is what is configured.
LEMMA AsConfiguredStep ==
    TypeOK /\ NewUnknown /\ PassShape /\ AsConfigured /\ [Next]_vars => AsConfigured'
<1> SUFFICES ASSUME TypeOK, NewUnknown, PassShape, AsConfigured, [Next]_vars, edits' = 0,
                    NEW i \in Initializer
             PROVE  /\ cached'[i] # NoTarget => cached'[i] = targets'[i]
                    /\ \A c \in Cluster : Running(i, c)' /\ passes'[i][c].pc # "target"
                                          => AsRead(i, passes[i][c])'
  BY DEF AsConfigured
<1>1. UNCHANGED configVars /\ edits = 0
  <2>1. ASSUME NEW d \in Cluster, Workspaces(d) PROVE UNCHANGED configVars
    BY <2>1 DEF Workspaces, CreateCluster, DeleteCluster, Provide, Establish
  <2>2. ~Administrator
    BY DEF Administrator, EditTarget, EditTemplate, TypeOK
  <2>3. ASSUME NEW j \in Initializer, TargetWatchEvent(j) PROVE UNCHANGED configVars
    BY <2>3 DEF TargetWatchEvent
  <2>4. ASSUME NEW j \in Initializer, NEW d \in Cluster,
               WatchEvent(j, d) \/ Resync(j, d) \/ StartPass(j, d)
        PROVE  UNCHANGED configVars
    BY <2>4 DEF WatchEvent, Resync, StartPass
  <2>5. ASSUME NEW j \in Initializer, NEW d \in Cluster, PassStep(j, d)
        PROVE  UNCHANGED configVars
    BY <2>5, PassStepFrame DEF PassStepEffect, configVars
  <2>6. Restart \/ UNCHANGED vars => UNCHANGED configVars
    BY DEF Restart, vars
  <2>7. UNCHANGED configVars
    BY <2>1, <2>2, <2>3, <2>4, <2>5, <2>6 DEF Next
  <2> QED
    BY <2>7 DEF configVars
<1>2. UNCHANGED <<targets, templates>>
  BY <1>1 DEF configVars
<1>3. cached'[i] # NoTarget => cached'[i] = targets'[i]
  <2>1. cached[i] # NoTarget => cached[i] = targets[i]
    BY <1>1 DEF AsConfigured
  <2>2. ASSUME NEW d \in Cluster, Workspaces(d) PROVE UNCHANGED cached
    BY <2>2 DEF Workspaces, CreateCluster, DeleteCluster, Provide, Establish, agentVars
  <2>3. Administrator => UNCHANGED cached
    BY DEF Administrator, EditTarget, EditTemplate, agentVars
  <2>4. ASSUME NEW j \in Initializer, TargetWatchEvent(j)
        PROVE  cached'[i] = cached[i] \/ cached'[i] = targets[i]
    BY <2>4 DEF TargetWatchEvent, TypeOK
  <2>5. ASSUME NEW j \in Initializer, NEW d \in Cluster,
               WatchEvent(j, d) \/ Resync(j, d) \/ StartPass(j, d)
        PROVE  UNCHANGED cached
    BY <2>5 DEF WatchEvent, Resync, StartPass
  <2>6. ASSUME NEW j \in Initializer, NEW d \in Cluster, PassStep(j, d) PROVE UNCHANGED cached
    BY <2>6, PassStepFrame DEF PassStepEffect
  <2>7. Restart => cached'[i] = NoTarget
    BY DEF Restart, NothingCached
  <2>8. UNCHANGED vars => UNCHANGED cached
    BY DEF vars, agentVars
  <2> QED
    BY <1>2, <2>1, <2>2, <2>3, <2>4, <2>5, <2>6, <2>7, <2>8 DEF Next
<1>4. ASSUME NEW c \in Cluster, Running(i, c)', passes'[i][c].pc # "target"
      PROVE  AsRead(i, passes[i][c])'
  <2> DEFINE pass == passes[i][c]
             next == passes'[i][c]
  <2>0. Running(i, c) /\ pass.pc # "target" => AsRead(i, pass)
    BY <1>1 DEF AsConfigured
  <2>1. AsRead(i, next) => AsRead(i, passes[i][c])'
    BY <1>2 DEF AsRead, Readable
  <2> SUFFICES AsRead(i, next)
    BY <2>1
  <2>2. CASE next = pass
    BY <1>4, <2>0, <2>2 DEF Running
  <2>3. CASE Advances(i, c)
    <3>1. Running(i, c)
      BY <2>3 DEF Advances, ReadTarget, ReadSource, AtSource, ApplyObject, ApplyNoKindMatch,
                  AtObject
    <3>2. pass \in Pass /\ pass.sources \in Seq(Source) /\ pass.rendered \in Seq(SUBSET Object)
      BY <3>1 DEF TypeOK, Running, Pass
    <3>3. CASE ReadTarget(i, c) /\ cached[i] # NoTarget
      <4>1. next = [pass EXCEPT !.pc = "sources", !.sources = cached[i]]
        BY <3>3 DEF ReadTarget, Continue, TypeOK
      <4>2. pass.rendered = <<>>
        BY <3>1, <3>3 DEF ReadTarget, PassShape
      <4>3. cached[i] = targets[i] /\ targets[i] # NoTarget
        BY <1>1, <3>3 DEF AsConfigured
      <4>4. next.rendered = <<>> /\ next.sources = targets[i]
        BY <3>2, <4>1, <4>2, <4>3 DEF Pass
      <4> QED
        BY <4>3, <4>4 DEF AsRead
    <3>4. CASE ReadSource(i, c)
      <4> DEFINE source == NextSource(pass)
                 manifests == Manifests(templates[source])
      <4>1. /\ next = [pass EXCEPT !.pc = IF manifests = {} THEN "sources" ELSE "apply",
                                   !.rendered = Append(@, manifests),
                                   !.todo = manifests]
            /\ pass.pc = "sources" /\ Len(pass.rendered) < Len(pass.sources)
            /\ Readable(source)
        BY <3>4 DEF ReadSource, AtSource, Continue, TypeOK
      <4>2. manifests \in SUBSET Object
        BY <3>4, NextSourceType, ReadableYieldsObjects DEF ReadSource
      <4>3. source = pass.sources[Len(pass.rendered) + 1]
        BY DEF NextSource
      <4> HIDE DEF manifests, source
      <4>4. next.rendered = Append(pass.rendered, manifests) /\ next.sources = pass.sources
        BY <3>2, <4>1 DEF Pass
      <4> HIDE DEF next
      <4>5. \A k \in DOMAIN next.rendered :
               \/ k = Len(pass.rendered) + 1 /\ next.rendered[k] = manifests
               \/ k \in DOMAIN pass.rendered /\ next.rendered[k] = pass.rendered[k]
        BY <3>2, <4>2, <4>4
      <4>6. manifests = Manifests(templates[source])
        BY DEF manifests
      <4>7. AsRead(i, pass)
        BY <2>0, <3>1, <4>1
      <4> HIDE DEF pass
      <4> QED
        BY <4>1, <4>3, <4>4, <4>5, <4>6, <4>7 DEF AsRead
    <3>5. CASE \E obj \in Object : ApplyObject(i, c, obj) \/ ApplyNoKindMatch(i, c, obj)
      <4>1. /\ next.rendered = pass.rendered /\ next.sources = pass.sources
            /\ pass.pc # "target"
        <5>0. PICK obj \in Object : ApplyObject(i, c, obj) \/ ApplyNoKindMatch(i, c, obj)
          BY <3>5
        <5> DEFINE rest == pass.todo \ {obj}
        <5>1. \/ next = [pass EXCEPT !.pc = IF rest = {} THEN "sources" ELSE "apply",
                                     !.todo = rest]
              \/ next = [pass EXCEPT !.pc = "sources", !.todo = {}, !.requeue = TRUE]
          BY <5>0 DEF ApplyObject, ApplyNoKindMatch, Continue, TypeOK
        <5> HIDE DEF rest
        <5>2. pass.pc = "apply"
          BY <3>5 DEF ApplyObject, ApplyNoKindMatch, AtObject
        <5> QED
          BY <3>2, <5>1, <5>2 DEF Pass
      <4> QED
        BY <2>0, <3>1, <4>1 DEF AsRead
    <3> QED
      BY <2>3, <3>3, <3>4, <3>5 DEF Advances
  <2> QED
    BY <1>4, <2>2, <2>3, PassOrigin DEF Fresh
<1> QED
  BY <1>3, <1>4
-----------------------------------------------------------------------------
LEMMA InitIInv == Init => IInv
<1>1. Init => TypeOK
  BY InitType
<1>2. Init => NewUnknown /\ ViewLags /\ NeverForgotten /\ PassShape /\ AppliedSoFar
              /\ AsConfigured
  BY DEF Init, NothingVisible, NothingRunning, NothingCached, NewUnknown, ViewLags,
         NeverForgotten, PassShape, AppliedSoFar, AsConfigured, Running, Shown
<1> QED
  BY <1>1, <1>2 DEF IInv

\* Every step keeps the inductive invariant.
LEMMA IInvStep == IInv /\ [Next]_vars => IInv'
  BY TypeStep, NewUnknownStep, NeverForgottenStep, AppliedStep, AsConfiguredStep DEF IInv

\* The inductive invariant holds always.
LEMMA Invariance == Spec => []IInv
<1>1. Init => IInv
  BY InitIInv
<1>2. IInv /\ [Next]_vars => IInv'
  BY IInvStep
<1> QED
  BY <1>1, <1>2, PTL DEF Spec
-----------------------------------------------------------------------------
\* The variables keep their types, and so do passes at each of their program points
\* (initcontroller.Reconciler.reconcile, reconciler.go:79).
THEOREM TypeCorrect == Spec => []TypeOK
<1>1. IInv => TypeOK
  BY DEF IInv
<1> QED
  BY <1>1, Invariance, PTL

\* A cluster that carries an initializer is known to the initializer's manager or is
\* about to be, through faults, conflicts of patches and restarts: no pass ends
\* without a reason to start another (reconciler.go:60-77, 135-150).
THEOREM ClusterNeverForgotten == Spec => []NeverForgotten
<1>1. IInv => NeverForgotten
  BY DEF IInv
<1> QED
  BY <1>1, Invariance, PTL

\* When it is an object's turn, what it needs from the same template is there, for
\* every set of objects, kinds and namespaces that the weights order
\* (SortObjectsByHierarchy, sort.go:28).
THEOREM PrerequisitesExist == Spec => []PrerequisitesFirst
<1>1. IInv => PrerequisitesFirst
  <2> SUFFICES ASSUME IInv, NEW i \in Initializer, NEW c \in Cluster, NEW obj \in Object,
                      AtObject(i, c, obj), status[c] = "present",
                      NEW other \in {ProvidedBy[obj], NamespaceOf[obj]},
                      other \in passes[i][c].rendered[Len(passes[i][c].rendered)]
               PROVE  other \in objects[c]
    BY DEF PrerequisitesFirst
  <2> DEFINE pass == passes[i][c]
  <2>1. pass \in Pass /\ pass.pc = "apply" /\ Len(pass.rendered) > 0
    BY DEF IInv, TypeOK, AtObject, Running, PassShape
  <2>2. pass.rendered \in Seq(SUBSET Object)
    BY <2>1 DEF Pass
  <2>3. pass.rendered[Len(pass.rendered)] \in SUBSET Object
    BY <2>1, <2>2
  <2>4. other \in Object
    BY <2>3
  <2>5. objectWeight(obj) > objectWeight(other)
    BY <2>4, InitControllerAssumption
  <2>6. objectWeight(obj) \in Nat /\ objectWeight(other) \in Nat
    BY <2>4, WeightType
  <2>7. other \notin pass.todo
    BY <2>5, <2>6 DEF AtObject, SortObjectsByHierarchy
  <2>8. pass.rendered[Len(pass.rendered)] \ pass.todo \subseteq objects[c]
    BY <2>1 DEF IInv, AppliedSoFar, AtObject
  <2> QED
    BY <2>7, <2>8
<1> QED
  BY <1>1, Invariance, PTL

\* The step that takes an initializer off a cluster that stays.
LEMMA ReleaseStep ==
    ASSUME IInv, [Next]_vars, NEW i \in Initializer, NEW c \in Cluster, Released(i, c)
    PROVE  /\ AtEnd(i, c) /\ ~passes[i][c].requeue
           /\ status[c] = "present"
<1>1. i \in initializers[c] /\ i \notin initializers'[c] /\ status'[c] = "present"
  BY DEF Released
<1>2. ASSUME NEW d \in Cluster, Workspaces(d) PROVE FALSE
  BY <1>1, <1>2 DEF Workspaces, CreateCluster, DeleteCluster, Provide, Establish, IInv, TypeOK
<1>3. ~Administrator /\ ~Restart /\ ~UNCHANGED vars
  BY <1>1 DEF Administrator, EditTarget, EditTemplate, Restart, vars, clusterVars
<1>4. ASSUME NEW j \in Initializer, TargetWatchEvent(j) PROVE FALSE
  BY <1>1, <1>4 DEF TargetWatchEvent, clusterVars
<1>5. ASSUME NEW j \in Initializer, NEW d \in Cluster,
             WatchEvent(j, d) \/ Resync(j, d) \/ StartPass(j, d)
      PROVE  FALSE
  BY <1>1, <1>5 DEF WatchEvent, Resync, StartPass, clusterVars
<1>6. PICK j \in Initializer, d \in Cluster : PassStep(j, d)
  BY <1>2, <1>3, <1>4, <1>5 DEF Next
<1>7. PassStepEffect(j, d)
  BY <1>6, PassStepFrame DEF IInv
<1>8. initializers' # initializers
  BY <1>1
<1>9. j = i /\ d = c /\ UNCHANGED status
  BY <1>1, <1>7 DEF PassStepEffect, IInv, TypeOK
<1>10. RemoveInitializer(i, c) \/ RemoveInitializerFails(i, c)
  BY <1>6, <1>8, <1>9
     DEF PassStep, ReadTarget, ReadSource, ReadSourceFails, ApplyObject, ApplyNoKindMatch,
         ApplyFails, RequeueAfter, clusterVars
<1> QED
  BY <1>1, <1>9, <1>10 DEF RemoveInitializer, RemoveInitializerFails

\* At its end a pass that asks for no requeue has everything it has read applied.
LEMMA AllApplied ==
    ASSUME IInv, NEW i \in Initializer, NEW c \in Cluster, AtEnd(i, c),
           ~passes[i][c].requeue, status[c] = "present"
    PROVE  \A k \in DOMAIN passes[i][c].rendered : passes[i][c].rendered[k] \subseteq objects[c]
<1>1. passes[i][c].todo = {}
  BY DEF AtEnd, IInv, PassShape
<1> QED
  BY <1>1 DEF AtEnd, IInv, AppliedSoFar

\* An initializer is removed only by its own pass, at the end, when all that the pass
\* has read exists - for every configuration, and while it is being edited
\* (reconciler.go:95-150).
THEOREM RemovedOnlyWhenComplete == Spec => InitializerRemovedOnlyWhenComplete
<1>1. IInv /\ [Next]_vars =>
         [\A i \in Initializer, c \in Cluster : Released(i, c) =>
             /\ AtEnd(i, c)
             /\ \A k \in DOMAIN passes[i][c].rendered :
                    passes[i][c].rendered[k] \subseteq objects[c]]_vars
  BY ReleaseStep, AllApplied
<1> QED
  BY <1>1, Invariance, PTL DEF Spec, InitializerRemovedOnlyWhenComplete

\* Without edits, all sources of the InitTarget are readable then and all their
\* objects exist in the cluster (docs/content/README.md:52-53).
THEOREM ReleasedWhenApplied == Spec => ReleasedOnlyWhenApplied
<1>1. ASSUME IInv, [Next]_vars, NEW i \in Initializer, NEW c \in Cluster,
             Released(i, c), edits = 0
      PROVE  /\ AllReadable(i)
             /\ \A k \in DOMAIN targets[i] : ManifestsOf(i, k) \subseteq objects[c]
  <2> DEFINE pass == passes[i][c]
  <2>1. AtEnd(i, c) /\ ~pass.requeue /\ status[c] = "present"
    BY <1>1, ReleaseStep
  <2>2. \A k \in DOMAIN pass.rendered : pass.rendered[k] \subseteq objects[c]
    BY <1>1, <2>1, AllApplied
  <2>3. AsRead(i, pass)
    BY <1>1, <2>1 DEF AtEnd, IInv, AsConfigured
  <2>4. pass.sources \in Seq(Source) /\ pass.rendered \in Seq(SUBSET Object)
    BY <1>1, <2>1 DEF AtEnd, Running, IInv, TypeOK, Pass
  <2>5. DOMAIN pass.rendered = DOMAIN targets[i]
    BY <2>1, <2>3, <2>4 DEF AtEnd, AsRead
  <2> QED
    BY <2>2, <2>3, <2>5 DEF AsRead, AllReadable, ManifestsOf
<1>2. IInv /\ [Next]_vars =>
         [\A i \in Initializer, c \in Cluster :
             Released(i, c) /\ edits = 0 =>
                 AllReadable(i) /\ \A k \in DOMAIN targets[i] : ManifestsOf(i, k) \subseteq objects[c]]_vars
  <2> SUFFICES ASSUME IInv, [Next]_vars, NEW i \in Initializer, NEW c \in Cluster,
                      Released(i, c), edits = 0
               PROVE  /\ AllReadable(i)
                      /\ \A k \in DOMAIN targets[i] : ManifestsOf(i, k) \subseteq objects[c]
    OBVIOUS
  <2> QED
    BY <1>1
<1> QED
  BY <1>2, Invariance, PTL DEF Spec, ReleasedOnlyWhenApplied
-----------------------------------------------------------------------------
(* The refinement.                                                         *)

\* A step of one pass changes the plan of no other.
LEMMA PlanChange ==
    ASSUME TypeOK, NEW i \in Initializer, NEW c \in Cluster, NEW pass, Continue(i, c, pass)
    PROVE  Plan' = [Plan EXCEPT ![i][c] = PlanOf(pass)]
<1>1. \A j \in Initializer, d \in Cluster :
         passes'[j][d] = IF j = i /\ d = c THEN pass ELSE passes[j][d]
  BY DEF TypeOK, Continue
<1> DEFINE next == [Plan EXCEPT ![i][c] = PlanOf(pass)]
<1>2. \A j \in Initializer, d \in Cluster :
         next[j][d] = IF j = i /\ d = c THEN PlanOf(pass) ELSE PlanOf(passes[j][d])
  BY DEF Plan
<1>3. \A j \in Initializer, d \in Cluster : Plan'[j][d] = next[j][d]
  BY <1>1, <1>2 DEF Plan
<1>4. next = [j \in Initializer |-> [d \in Cluster |-> next[j][d]]]
  BY DEF Plan
<1>5. Plan' = [j \in Initializer |-> [d \in Cluster |-> Plan'[j][d]]]
  BY DEF Plan
<1> QED
  BY <1>3, <1>4, <1>5

\* The plan of a running pass.
LEMMA RunningPlan ==
    ASSUME TypeOK, NEW i \in Initializer, NEW c \in Cluster, Running(i, c)
    PROVE  /\ passes[i][c] \in Pass
           /\ Plan[i][c] # NoPass
           /\ Plan[i][c].wanted = Wanted(passes[i][c])
           /\ Plan[i][c].final = Final(passes[i][c])
<1>1. passes[i][c] \in Pass
  BY DEF TypeOK, Running
<1>2. Plan[i][c] = [wanted |-> Wanted(passes[i][c]), final |-> Final(passes[i][c])]
  BY <1>1, NoPassAssumption DEF Plan, PlanOf
<1>3. Wanted(passes[i][c]) \in SUBSET Object
  <2>1. \A k \in DOMAIN passes[i][c].rendered : passes[i][c].rendered[k] \in SUBSET Object
    BY <1>1 DEF Pass
  <2> QED
    BY <2>1 DEF Wanted
<1>4. Final(passes[i][c]) \in BOOLEAN
  BY <1>1 DEF Final, Pass
<1> QED
  BY <1>1, <1>2, <1>3, <1>4, NoPassAssumption

\* A pass whose plan is final has everything it wants.
FinalIsApplied ==
    \A i \in Initializer, c \in Cluster :
        Running(i, c) /\ Final(passes[i][c]) /\ status[c] = "present"
        => Wanted(passes[i][c]) \subseteq objects[c]

\* A pass that is about to finish has applied all it has read.
LEMMA FinalApplied == IInv => FinalIsApplied
  BY AllApplied DEF FinalIsApplied, Final, Wanted, AtEnd

\* Every step keeps the promise.
LEMMA PromiseStep == IInv /\ IInv' /\ [Next]_vars => [Promise!Next]_(Promise!vars)
<1> SUFFICES ASSUME IInv, IInv', [Next]_vars PROVE Promise!Next \/ UNCHANGED Promise!vars
  OBVIOUS
<1>0. TypeOK /\ TypeOK'
  BY DEF IInv
<1> DEFINE Stutter == UNCHANGED <<status, initializers, objects, passes>>
<1>a. Stutter => UNCHANGED Promise!vars
  BY DEF Promise!vars, Plan
<1>1. ASSUME NEW c \in Cluster, Workspaces(c) PROVE Promise!Next \/ Stutter
  <2>1. CASE CreateCluster(c)
    <3>1. Initializer \in SUBSET Initializer /\ UNCHANGED Plan
      BY <2>1 DEF CreateCluster, agentVars, Plan
    <3>2. Promise!CreateCluster(c)
      BY <2>1, <3>1 DEF CreateCluster, Promise!CreateCluster
    <3> QED
      BY <3>2 DEF Promise!Next
  <2>2. CASE DeleteCluster(c)
    <3>1. UNCHANGED Plan
      BY <2>2 DEF DeleteCluster, agentVars, Plan
    <3>2. Promise!DeleteCluster(c)
      BY <2>2, <3>1 DEF DeleteCluster, Promise!DeleteCluster
    <3> QED
      BY <3>2 DEF Promise!Next
  <2>3. ASSUME NEW obj \in Object, Establish(c, obj) PROVE Stutter
    BY <2>3 DEF Establish, agentVars
  <2>4. ASSUME NEW obj \in Foreign, Provide(c, obj) PROVE Promise!Next
    <3>1. obj \in Object /\ UNCHANGED Plan
      BY <2>4, InitControllerAssumption DEF Provide, agentVars, Plan
    <3>2. Promise!Provide(c)
      BY <2>4, <3>1 DEF Provide, Promise!Provide
    <3> QED
      BY <3>2 DEF Promise!Next
  <2> QED
    BY <1>1, <2>1, <2>2, <2>3, <2>4 DEF Workspaces
<1>2. Administrator => Stutter
  BY DEF Administrator, EditTarget, EditTemplate, clusterVars, agentVars
<1>3. ASSUME NEW i \in Initializer, TargetWatchEvent(i) PROVE Stutter
  BY <1>3 DEF TargetWatchEvent, clusterVars
<1>4. ASSUME NEW i \in Initializer, NEW c \in Cluster, WatchEvent(i, c) \/ Resync(i, c)
      PROVE  Stutter
  BY <1>4 DEF WatchEvent, Resync, clusterVars
<1>5. ASSUME NEW i \in Initializer, NEW c \in Cluster, StartPass(i, c)
      PROVE  Promise!Next \/ Stutter
  <2> DEFINE fresh == [pc |-> "target", snapshot |-> view[i][c], sources |-> <<>>,
                       rendered |-> <<>>, todo |-> {}, requeue |-> FALSE]
  <2>1. CASE i \notin view[i][c]
    BY <1>5, <2>1 DEF StartPass, clusterVars
  <2>2. CASE i \in view[i][c]
    <3>1. status[c] # "new" /\ view[i][c] \in SUBSET Initializer
      BY <1>0, <2>2 DEF IInv, NewUnknown, TypeOK
    <3>2. fresh \in Pass
      BY <3>1, FreshPassType
    <3>3. PlanOf(fresh) = [wanted |-> {}, final |-> FALSE]
      <4>1. Wanted(fresh) = {} /\ Final(fresh) = FALSE
        BY DEF Wanted, Final
      <4> QED
        BY <3>2, <4>1, NoPassAssumption DEF PlanOf
    <3>4. Continue(i, c, fresh)
      BY <1>5, <2>2 DEF StartPass, Continue
    <3>5. Plan' = [Plan EXCEPT ![i][c] = PlanOf(fresh)]
      BY <1>0, <3>4, PlanChange
    <3>6. Plan[i][c] = NoPass
      BY <1>5 DEF StartPass, Running, Plan, PlanOf
    <3>7. Promise!Undertake(i, c)
      BY <1>5, <3>1, <3>3, <3>5, <3>6
         DEF StartPass, clusterVars, Promise!Undertake, Promise!NothingPlanned
    <3> QED
      BY <3>7 DEF Promise!Next
  <2> QED
    BY <2>1, <2>2
<1>6. ASSUME NEW i \in Initializer, NEW c \in Cluster, PassStep(i, c)
      PROVE  Promise!Next \/ Stutter
  <2> DEFINE pass == passes[i][c]
             next == passes'[i][c]
  <2>1. PassStepEffect(i, c)
    BY <1>0, <1>6, PassStepFrame
  <2>2. Running(i, c) /\ UNCHANGED status
    BY <2>1 DEF PassStepEffect
  <2>3. /\ pass \in Pass /\ Plan[i][c] # NoPass
        /\ Plan[i][c].wanted = Wanted(pass) /\ Plan[i][c].final = Final(pass)
    BY <1>0, <2>2, RunningPlan
  <2>4. Plan' = [Plan EXCEPT ![i][c] = PlanOf(next)]
    <3>1. Continue(i, c, next)
      <4>1. \A j \in Initializer, d \in Cluster :
               passes'[j][d] = [passes EXCEPT ![i][c] = next][j][d]
        BY <1>0, <2>1 DEF PassStepEffect, TypeOK
      <4>2. passes' \in [Initializer -> [Cluster -> Pass \cup {NoPass}]]
        BY <1>0 DEF TypeOK
      <4>3. [passes EXCEPT ![i][c] = next] \in [Initializer -> [Cluster -> Pass \cup {NoPass}]]
        BY <1>0, <4>2 DEF TypeOK
      <4> HIDE DEF next
      <4>4. passes' = [passes EXCEPT ![i][c] = next]
        BY <4>1, <4>2, <4>3
      <4> QED
        BY <4>4 DEF Continue
    <3> QED
      BY <1>0, <3>1, PlanChange
  <2>5. next = NoPass => Plan' = [Plan EXCEPT ![i][c] = NoPass]
    BY <2>4 DEF PlanOf
  <2>6. next # NoPass =>
           /\ Plan' = [Plan EXCEPT ![i][c] = [wanted |-> Wanted(next), final |-> Final(next)]]
           /\ next \in Pass
           /\ Final(next) /\ status[c] = "present" => Wanted(next) \subseteq objects'[c]
    <3>1. next # NoPass => next \in Pass
      BY <1>0 DEF TypeOK
    <3>2. next # NoPass /\ Final(next) /\ status[c] = "present" =>
             Wanted(next) \subseteq objects'[c]
      <4>1. FinalIsApplied'
        BY FinalApplied, PTL
      <4> QED
        BY <2>2, <4>1 DEF FinalIsApplied, Running
    <3> QED
      BY <2>4, <3>1, <3>2 DEF PlanOf
  <2>7. CASE next = NoPass /\ UNCHANGED <<initializers, objects>>
    <3>1. Promise!Abandon(i, c)
      BY <2>2, <2>5, <2>7 DEF Promise!Abandon
    <3> QED
      BY <3>1 DEF Promise!Next
  <2>8. ASSUME next # NoPass, UNCHANGED <<initializers, objects>>, ~Final(pass),
               NEW more \in SUBSET Object, Wanted(next) = Wanted(pass) \cup more
        PROVE  Promise!Next
    <3>1. Final(next) \in BOOLEAN
      BY <2>6, <2>8 DEF Final, Pass
    <3>2. Promise!Advance(i, c)
      BY <2>2, <2>3, <2>6, <2>8, <3>1 DEF Promise!Advance
    <3> QED
      BY <3>2 DEF Promise!Next
  <2>9. ASSUME NEW obj \in Object, ApplyObject(i, c, obj) \/ ApplyFails(i, c, obj)
        PROVE  /\ ~Final(pass) /\ obj \in Wanted(pass)
               /\ UNCHANGED initializers
    <3>1. pass.pc = "apply" /\ obj \in pass.todo
      BY <2>9 DEF ApplyObject, ApplyFails, AtObject, SortObjectsByHierarchy
    <3>2. /\ Len(pass.rendered) > 0
          /\ pass.todo \subseteq pass.rendered[Len(pass.rendered)]
      BY <2>2, <3>1 DEF IInv, PassShape
    <3>3. Len(pass.rendered) \in DOMAIN pass.rendered
      <4>1. pass.rendered \in Seq(SUBSET Object)
        BY <2>3 DEF Pass
      <4> QED
        BY <3>2, <4>1
    <3> QED
      BY <2>9, <3>1, <3>2, <3>3 DEF Final, Wanted, ApplyObject, ApplyFails
  <2>10. ASSUME NEW obj \in Object, ApplyObject(i, c, obj) \/ ApplyFails(i, c, obj),
                Reachable(i, c), objects' = [objects EXCEPT ![c] = @ \cup {obj}],
                \/ next = NoPass
                \/ next # NoPass /\ Wanted(next) = Wanted(pass)
         PROVE  Promise!Next
    <3>1. status[c] = "present" /\ i \in initializers[c]
      BY <2>10 DEF Reachable, IInv, NewUnknown
    <3>2. next # NoPass => Final(next) \in BOOLEAN
      BY <2>6 DEF Final, Pass
    <3>3. ~Final(pass) /\ obj \in Wanted(pass) /\ UNCHANGED initializers
      BY <2>9, <2>10
    <3>4. next # NoPass => Plan' = [Plan EXCEPT ![i][c].final = Final(next)]
      <4>1. Plan[i][c] = [wanted |-> Wanted(pass), final |-> Final(pass)]
        BY <2>2 DEF Running, Plan, PlanOf
      <4> HIDE DEF pass, next
      <4>2. next # NoPass => [wanted |-> Wanted(next), final |-> Final(next)]
                             = [Plan[i][c] EXCEPT !.final = Final(next)]
        BY <2>10, <4>1
      <4> QED
        BY <2>6, <4>2
    <3> HIDE DEF pass, next
    <3>5. Promise!CreateObject(i, c)
      <4>1. CASE next = NoPass
        <5>1. Plan' = [Plan EXCEPT ![i][c] = NoPass]
          BY <2>5, <4>1
        <5>2. /\ \E o \in Plan[i][c].wanted : objects' = [objects EXCEPT ![c] = @ \cup {o}]
              /\ Plan[i][c] # NoPass /\ ~Plan[i][c].final
          BY <2>3, <2>10, <3>3
        <5> QED
          BY <2>2, <3>1, <3>3, <5>1, <5>2 DEF Promise!CreateObject
      <4>2. CASE next # NoPass
        <5>1. \E o \in Plan[i][c].wanted : objects' = [objects EXCEPT ![c] = @ \cup {o}]
          BY <2>3, <2>10, <3>3
        <5>2. \E final \in BOOLEAN :
                 /\ final => Plan[i][c].wanted \subseteq objects'[c]
                 /\ Plan' = [Plan EXCEPT ![i][c].final = final]
          BY <2>3, <2>6, <2>10, <3>1, <3>2, <3>4, <4>2
        <5> QED
          BY <2>2, <2>3, <3>1, <3>3, <5>1, <5>2 DEF Promise!CreateObject
      <4> QED
        BY <4>1, <4>2
    <3> QED
      BY <3>5 DEF Promise!Next
  <2>11. ASSUME AtEnd(i, c), ~pass.requeue, PatchAccepted(i, c), next = NoPass,
                initializers' = [initializers EXCEPT ![c] = Patched(i, c)], UNCHANGED objects
         PROVE  Promise!Next
    <3>1. i \in initializers[c] /\ Patched(i, c) = initializers[c] \ {i}
      BY <2>11 DEF PatchAccepted, Reachable
    <3>2. status[c] = "present" /\ Final(pass)
      BY <2>11, <3>1 DEF AtEnd, Final, IInv, NewUnknown
    <3>3. Wanted(pass) \subseteq objects[c]
      BY <2>2, <3>2, FinalApplied DEF FinalIsApplied
    <3>4. Promise!Release(i, c)
      BY <2>2, <2>3, <2>5, <2>11, <3>1, <3>2, <3>3 DEF Promise!Release
    <3> QED
      BY <3>4 DEF Promise!Next
  <2>12. ASSUME Requeue(i, c) PROVE next = NoPass
    BY <1>0, <2>12 DEF Requeue, EndPass, Continue, TypeOK
  <2>13. CASE ReadTarget(i, c)
    <3>1. CASE cached[i] = NoTarget
      BY <2>7, <2>12, <2>13, <3>1 DEF ReadTarget, clusterVars
    <3>2. CASE cached[i] # NoTarget
      <4>1. Advances(i, c)
        BY <2>13, <3>2 DEF Advances
      <4>2. next # NoPass
        BY <1>0, <4>1, AdvancesGoesOn DEF Running
      <4>3. next = [pass EXCEPT !.pc = "sources", !.sources = cached[i]] /\ pass.pc = "target"
        BY <1>0, <2>13, <3>2 DEF ReadTarget, Continue, TypeOK
      <4>4. next.rendered = pass.rendered
        BY <2>3, <4>3 DEF Pass
      <4>5. Wanted(next) = Wanted(pass) \cup {} /\ ~Final(pass)
        BY <4>3, <4>4 DEF Wanted, Final
      <4>6. UNCHANGED <<initializers, objects>>
        BY <2>13 DEF ReadTarget, clusterVars
      <4>7. {} \in SUBSET Object
        OBVIOUS
      <4> HIDE DEF next, pass
      <4> QED
        BY <2>8, <4>2, <4>5, <4>6, <4>7
    <3> QED
      BY <3>1, <3>2
  <2>14. CASE ReadSource(i, c)
    <3> DEFINE manifests == Manifests(templates[NextSource(pass)])
    <3>1. Advances(i, c)
      BY <2>14 DEF Advances
    <3>2. next # NoPass
      BY <1>0, <3>1, AdvancesGoesOn DEF Running
    <3>3. /\ next = [pass EXCEPT !.pc = IF manifests = {} THEN "sources" ELSE "apply",
                                 !.rendered = Append(@, manifests),
                                 !.todo = manifests]
          /\ pass.pc = "sources" /\ Len(pass.rendered) < Len(pass.sources)
      BY <1>0, <2>14 DEF ReadSource, AtSource, Continue, TypeOK
    <3>4. manifests \in SUBSET Object
      BY <1>0, <2>14, NextSourceType, ReadableYieldsObjects DEF ReadSource
    <3> HIDE DEF manifests
    <3>5. pass.rendered \in Seq(SUBSET Object) /\ pass.sources \in Seq(Source)
      BY <2>3 DEF Pass
    <3>6. next.rendered = Append(pass.rendered, manifests)
      BY <2>3, <3>3 DEF Pass
    <3>7. ~Final(pass)
      BY <3>3, <3>5 DEF Final
    <3>8. UNCHANGED <<initializers, objects>>
      BY <2>14 DEF ReadSource, clusterVars
    <3> HIDE DEF next, pass
    <3>9. Wanted(next) = Wanted(pass) \cup manifests
      <4>1. /\ DOMAIN next.rendered = DOMAIN pass.rendered \cup {Len(pass.rendered) + 1}
            /\ next.rendered[Len(pass.rendered) + 1] = manifests
            /\ \A k \in DOMAIN pass.rendered : next.rendered[k] = pass.rendered[k]
        BY <3>4, <3>5, <3>6
      <4> QED
        BY <4>1 DEF Wanted
    <3> QED
      BY <2>8, <3>2, <3>4, <3>7, <3>8, <3>9
  <2>15. CASE ReadSourceFails(i, c)
    BY <2>7, <2>12, <2>15 DEF ReadSourceFails, clusterVars
  <2>16. ASSUME NEW obj \in Object, ApplyObject(i, c, obj) PROVE Promise!Next
    <3>1. Advances(i, c)
      BY <2>16 DEF Advances
    <3>2. next # NoPass
      BY <1>0, <3>1, AdvancesGoesOn DEF Running
    <3> DEFINE rest == pass.todo \ {obj}
    <3>3. next = [pass EXCEPT !.pc = IF rest = {} THEN "sources" ELSE "apply", !.todo = rest]
      BY <1>0, <2>16 DEF ApplyObject, Continue, TypeOK
    <3> HIDE DEF rest
    <3>4. next.rendered = pass.rendered
      BY <2>3, <3>3 DEF Pass
    <3>5. Wanted(next) = Wanted(pass)
      BY <3>4 DEF Wanted
    <3>6. Reachable(i, c) /\ objects' = [objects EXCEPT ![c] = @ \cup {obj}]
      BY <2>16 DEF ApplyObject
    <3> QED
      BY <2>10, <2>16, <3>2, <3>5, <3>6
  <2>17. ASSUME NEW obj \in Object, ApplyNoKindMatch(i, c, obj) PROVE Promise!Next
    <3>1. Advances(i, c)
      BY <2>17 DEF Advances
    <3>2. next # NoPass
      BY <1>0, <3>1, AdvancesGoesOn DEF Running
    <3>3. /\ next = [pass EXCEPT !.pc = "sources", !.todo = {}, !.requeue = TRUE]
          /\ pass.pc = "apply"
      BY <1>0, <2>17 DEF ApplyNoKindMatch, AtObject, Continue, TypeOK
    <3>4. next.rendered = pass.rendered
      BY <2>3, <3>3 DEF Pass
    <3>5. Wanted(next) = Wanted(pass) \cup {} /\ ~Final(pass)
      BY <3>3, <3>4 DEF Wanted, Final
    <3>6. UNCHANGED <<initializers, objects>>
      BY <2>17 DEF ApplyNoKindMatch, clusterVars
    <3>7. {} \in SUBSET Object
      OBVIOUS
    <3> HIDE DEF next, pass
    <3> QED
      BY <2>8, <3>2, <3>5, <3>6, <3>7
  <2>18. ASSUME NEW obj \in Object, ApplyFails(i, c, obj)
         PROVE  Promise!Next \/ Stutter
    <3>0. Requeue(i, c) /\ UNCHANGED initializers
      BY <2>18 DEF ApplyFails
    <3>1. next = NoPass /\ UNCHANGED initializers
      BY <2>12, <3>0
    <3>2. CASE UNCHANGED objects
      BY <2>7, <3>1, <3>2
    <3>3. CASE ~UNCHANGED objects
      BY <2>10, <2>18, <3>1, <3>3 DEF ApplyFails
    <3> QED
      BY <3>2, <3>3
  <2>19. CASE RequeueAfter(i, c)
    BY <2>7, <2>12, <2>19 DEF RequeueAfter, clusterVars
  <2>20. CASE RemoveInitializer(i, c)
    <3>1. next = NoPass
      BY <1>0, <2>20 DEF RemoveInitializer, EndPass, Continue, TypeOK
    <3> QED
      BY <2>11, <2>20, <3>1 DEF RemoveInitializer
  <2>21. CASE RemoveInitializerFails(i, c)
    <3>1. next = NoPass /\ UNCHANGED objects
      BY <2>12, <2>21 DEF RemoveInitializerFails
    <3>2. CASE UNCHANGED initializers
      BY <2>7, <3>1, <3>2
    <3>3. CASE ~UNCHANGED initializers
      BY <2>11, <2>21, <3>1, <3>3 DEF RemoveInitializerFails
    <3> QED
      BY <3>2, <3>3
  <2> QED
    BY <1>6, <2>13, <2>14, <2>15, <2>16, <2>17, <2>18, <2>19, <2>20, <2>21 DEF PassStep
<1>7. CASE Restart
  <2>1. Plan' = [i \in Initializer |-> [c \in Cluster |-> NoPass]]
    BY <1>7 DEF Restart, NothingRunning, Plan, PlanOf
  <2>2. Promise!AbandonAll
    BY <1>7, <2>1 DEF Restart, clusterVars, Promise!AbandonAll
  <2> QED
    BY <2>2 DEF Promise!Next
<1>8. UNCHANGED vars => Stutter
  BY DEF vars, clusterVars, agentVars
<1> QED
  BY <1>a, <1>1, <1>2, <1>3, <1>4, <1>5, <1>6, <1>7, <1>8 DEF Next

\* The controller, its sources and the applier implement the promise the agent makes
\* about a cluster, for any number of workers, whatever fails and whoever edits.
THEOREM KeepsPromise == Spec => PromiseKept
<1>1. Init => Promise!Init
  <2> SUFFICES ASSUME Init PROVE Promise!Init
    OBVIOUS
  <2>1. Plan = [i \in Initializer |-> [c \in Cluster |-> NoPass]]
    BY DEF Init, NothingRunning, Plan, PlanOf
  <2> QED
    BY <2>1 DEF Init, Promise!Init
<1>2. IInv /\ IInv' /\ [Next]_vars => [Promise!Next]_(Promise!vars)
  BY PromiseStep
<1> QED
  BY <1>1, <1>2, Invariance, PTL DEF Spec, PromiseKept, Promise!Spec
=============================================================================
