------------------------------ MODULE Bootstrap ------------------------------
(***************************************************************************)
(* What the agent promises about a LogicalCluster, apart from how          *)
(* Reconcile, the sources and the applier go about it.                     *)
(*                                                                         *)
(* For a cluster an initializer can have a plan: the objects it knows to   *)
(* be wanted, and whether it knows all of them and is done.  Objects are   *)
(* created only in a cluster that still carries the initializer, and only  *)
(* ones that are planned.  An initializer is taken off a cluster by its    *)
(* own agent alone, when its plan is final - all of it exists - and it     *)
(* never comes back.                                                       *)
(***************************************************************************)
CONSTANTS
    Cluster,      \* logical clusters
    Initializer,  \* initializers, each with an agent's manager behind it
    Object,       \* objects that may exist in a cluster
    NoPlan        \* the agent is not working on the cluster

VARIABLES
    status,        \* whether a cluster is yet to come, present or gone
    initializers,  \* the initializers each cluster carries
    objects,       \* the objects that exist in each cluster
    plan           \* what each initializer's agent is up to in each cluster

vars == <<status, initializers, objects, plan>>
-----------------------------------------------------------------------------
Init ==
    /\ status = [c \in Cluster |-> "new"]
    /\ initializers = [c \in Cluster |-> {}]
    /\ objects = [c \in Cluster |-> {}]
    /\ plan = [i \in Initializer |-> [c \in Cluster |-> NoPlan]]

CreateCluster(c) ==
    /\ status[c] = "new"
    /\ status' = [status EXCEPT ![c] = "present"]
    /\ \E carried \in SUBSET Initializer :
          initializers' = [initializers EXCEPT ![c] = carried]
    /\ UNCHANGED <<objects, plan>>

DeleteCluster(c) ==
    /\ status[c] = "present"
    /\ status' = [status EXCEPT ![c] = "gone"]
    /\ initializers' = [initializers EXCEPT ![c] = {}]
    /\ objects' = [objects EXCEPT ![c] = {}]
    /\ UNCHANGED plan

\* Somebody else creates an object.
Provide(c) ==
    /\ status[c] = "present"
    /\ \E obj \in Object : objects' = [objects EXCEPT ![c] = @ \cup {obj}]
    /\ UNCHANGED <<status, initializers, plan>>
-----------------------------------------------------------------------------
NothingPlanned == [wanted |-> {}, final |-> FALSE]

Undertake(i, c) ==
    /\ status[c] # "new"
    /\ plan[i][c] = NoPlan
    /\ plan' = [plan EXCEPT ![i][c] = NothingPlanned]
    /\ UNCHANGED <<status, initializers, objects>>

\* The agent learns of more objects, or that it is done.
Advance(i, c) ==
    /\ plan[i][c] # NoPlan /\ ~plan[i][c].final
    /\ \E more \in SUBSET Object, final \in BOOLEAN :
          LET wanted == plan[i][c].wanted \cup more IN
          /\ final /\ status[c] = "present" => wanted \subseteq objects[c]
          /\ plan' = [plan EXCEPT ![i][c] = [wanted |-> wanted, final |-> final]]
    /\ UNCHANGED <<status, initializers, objects>>

\* The agent creates an object of its plan, and goes on, is done, or has to
\* start again.
CreateObject(i, c) ==
    /\ i \in initializers[c]
    /\ plan[i][c] # NoPlan /\ ~plan[i][c].final
    /\ \E obj \in plan[i][c].wanted :
          objects' = [objects EXCEPT ![c] = @ \cup {obj}]
    /\ \/ plan' = [plan EXCEPT ![i][c] = NoPlan]
       \/ \E final \in BOOLEAN :
             /\ final => plan[i][c].wanted \subseteq objects'[c]
             /\ plan' = [plan EXCEPT ![i][c].final = final]
    /\ UNCHANGED <<status, initializers>>

Release(i, c) ==
    /\ i \in initializers[c]
    /\ plan[i][c] # NoPlan /\ plan[i][c].final
    /\ plan[i][c].wanted \subseteq objects[c]
    /\ initializers' = [initializers EXCEPT ![c] = @ \ {i}]
    /\ plan' = [plan EXCEPT ![i][c] = NoPlan]
    /\ UNCHANGED <<status, objects>>

Abandon(i, c) ==
    /\ plan' = [plan EXCEPT ![i][c] = NoPlan]
    /\ UNCHANGED <<status, initializers, objects>>

\* The agent process dies.
AbandonAll ==
    /\ plan' = [i \in Initializer |-> [c \in Cluster |-> NoPlan]]
    /\ UNCHANGED <<status, initializers, objects>>

Next ==
    \/ \E c \in Cluster : CreateCluster(c) \/ DeleteCluster(c) \/ Provide(c)
    \/ \E i \in Initializer, c \in Cluster :
          \/ Undertake(i, c) \/ Advance(i, c) \/ CreateObject(i, c)
          \/ Release(i, c) \/ Abandon(i, c)
    \/ AbandonAll

Spec == Init /\ [][Next]_vars
=============================================================================
