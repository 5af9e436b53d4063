----------------------------- MODULE InitAgent -----------------------------
(***************************************************************************)
(* The whole agent: the target controller with the managers it starts, and *)
(* the passes of their init controllers, which InitController models call  *)
(* by call, here as a beginning and an end.                                *)
(*                                                                         *)
(* The two meet in one function: a manager is given an InitTargetProvider  *)
(* that looks the InitTarget up by NAME at the beginning of every pass,    *)
(* while the manager itself was started for one InitTarget, by UID, and    *)
(* for the WorkspaceType that one referenced then.                         *)
(***************************************************************************)
EXTENDS TargetController

CONSTANT Cluster  \* logical clusters

VARIABLES
    carries,  \* the types whose initializer a cluster still carries
    passes    \* the InitTarget that a manager's pass over a cluster uses

agentVars == <<vars, carries, passes>>
-----------------------------------------------------------------------------
NoPasses == [c \in Cluster |-> NoTarget]

InPass(m, c) == passes[m][c] # NoTarget

AgentInit ==
    /\ Init
    /\ carries = [c \in Cluster |-> {}]
    /\ passes = [m \in Manager |-> NoPasses]

\* A user creates a workspace of type t, or of several that extend each other.
NewCluster(c) ==
    /\ carries[c] = {}
    /\ \E ts \in (SUBSET WorkspaceType) \ {{}} : carries' = [carries EXCEPT ![c] = ts]
    /\ UNCHANGED <<vars, passes>>

\* A step of the target controller; the passes of a manager end with it.
Controller(action) ==
    /\ action
    /\ passes' = [m \in Manager |-> IF Runs(m)' THEN passes[m] ELSE NoPasses]
    /\ UNCHANGED carries

\* Mutant: the provider hands out the InitTarget as it was at the launch.
Bug_newInitTargetProvider(m) ==
    [name |-> managers[m].name, uid |-> managers[m].key, type |-> managers[m].type,
     labelled |-> TRUE, deleting |-> FALSE]

\* The InitTargetProvider of a manager: a Get by name from the agent's cache.
newInitTargetProvider(m) == cached[managers[m].name]

\* A pass over a cluster that shows the manager's initializer gets its InitTarget.
\* If there is none, it fails and is tried again.
BeginPass(m, c) ==
    /\ Runs(m) /\ ~InPass(m, c)
    /\ managers[m].type \in carries[c]
    /\ newInitTargetProvider(m) # NoTarget
    /\ passes' = [passes EXCEPT ![m][c] = newInitTargetProvider(m)]
    /\ UNCHANGED <<vars, carries>>

\* All sources are applied and the initializer is removed; if it is gone already
\* the patch fails, and the next pass finds nothing to do.
EndPass(m, c) ==
    /\ Runs(m) /\ InPass(m, c)
    /\ carries' = [carries EXCEPT ![c] = @ \ {managers[m].type}]
    /\ passes' = [passes EXCEPT ![m][c] = NoTarget]
    /\ UNCHANGED vars

\* Some call of the pass fails.
PassFails(m, c) ==
    /\ Runs(m) /\ InPass(m, c)
    /\ failures < MaxFailures
    /\ failures' = failures + 1
    /\ passes' = [passes EXCEPT ![m][c] = NoTarget]
    /\ UNCHANGED <<targets, types, created, cached, queue, worker, ctrlCancels,
                   managers, crashes, carries>>

AgentNext ==
    \/ Controller(Next)
    \/ \E c \in Cluster : NewCluster(c)
    \/ \E m \in Manager, c \in Cluster :
          BeginPass(m, c) \/ EndPass(m, c) \/ PassFails(m, c)

AgentSpec == AgentInit /\ [][AgentNext]_agentVars

\* The fairness of the target controller, and the workers of a running manager go on.
AgentFairness ==
    /\ WF_agentVars(Controller(Worker))
    /\ \A n \in Name : /\ WF_agentVars(Controller(WatchEvent(n)))
                       /\ WF_agentVars(Controller(Resync(n)))
                       /\ SF_agentVars(Controller(Reconcile(n)))
    /\ \A m \in Manager : WF_agentVars(Controller(Goroutines(m)))
    /\ \A m \in Manager, c \in Cluster :
          WF_agentVars(BeginPass(m, c)) /\ WF_agentVars(EndPass(m, c))

FairAgentSpec == AgentSpec /\ AgentFairness
-----------------------------------------------------------------------------
(* Safety.                                                                 *)

\* For one InitTarget a cluster is in one pass at a time, also while a manager
\* that was told to stop finishes its last pass; and every pass uses an InitTarget
\* of the name its manager was started for (controller.go:129-170, 226-236).
OnePassPerTarget ==
    \A c \in Cluster, m1 \in Manager : InPass(m1, c) =>
        /\ passes[m1][c].name = managers[m1].name
        /\ \A m2 \in Manager :
              InPass(m2, c) /\ managers[m1].key = managers[m2].key => m1 = m2
-----------------------------------------------------------------------------
(* Liveness.                                                               *)

\* Every cluster of a type is released, again and again as new ones come, once some
\* InitTarget for the type stays: whatever became of earlier InitTargets of that
\* name, of their managers that are still around, and of failed or killed ones.
ClusterEventuallyReleased ==
    \A n \in Name, t \in WorkspaceType, c \in Cluster :
        <>[]Servable(n, t) => []<>(t \notin carries[c])

\* When an InitTarget is deleted for good, passes for it come to an end, although
\* its manager is never told to stop and clusters keep coming.
GoneTargetEndsPasses ==
    \A n \in Name :
        <>[](targets[n] = NoTarget) =>
            <>[](\A m \in Manager, c \in Cluster :
                    InPass(m, c) /\ Exists(m) => managers[m].name # n)
=============================================================================
