--------------------------- MODULE StartupProofs ---------------------------
(***************************************************************************)
(* Startup's safety properties, for any number of replicas, selectors and  *)
(* failures.                                                               *)
(*                                                                         *)
(* That Complete never fails rests on the command line: a replica that has *)
(* been validated was validated with the options that all replicas have    *)
(* now, for a change of them rolls every one.  That only one replica       *)
(* serves rests on the lease: with leader election it is held by any       *)
(* replica whose manager is, or was until just now, at work, and it runs   *)
(* out only when that process has exited.                                  *)
(***************************************************************************)
EXTENDS Startup, FiniteSetTheorems, TLAPS

States == {"dead", "started", "validated", "completed", "fatal", "electing",
           "active", "stopped"}

ProcessType == process \in [Replica -> States]

\* What a replica has validated is still the command line.
ValidatedIsCurrent == \A r \in Replica : process[r] = "validated" => Validate(options)

\* Whoever serves under leader election holds the lease.
ServingHoldsLease ==
    options.leaderElection =>
        \A r \in Replica : process[r] \in {"active", "stopped"} => lease = r

IInv ==
    /\ ProcessType
    /\ ValidatedIsCurrent
    /\ CompleteNeverFails
    /\ ServingHoldsLease
-----------------------------------------------------------------------------
LEMMA InitIInv == Init => IInv
BY DEF Init, IInv, ProcessType, States, ValidatedIsCurrent, CompleteNeverFails,
       ServingHoldsLease

\* Complete repeats a part of what Validate asks.
LEMMA ValidateImpliesComplete ==
    ASSUME NEW o, Validate(o)
    PROVE  Complete(o)
BY DEF Validate, Complete

\* Every step keeps the inductive invariant.
LEMMA IInvStep == IInv /\ [Next]_vars => IInv'
<1> SUFFICES ASSUME IInv, [Next]_vars PROVE IInv'
  OBVIOUS
<1> USE DEF IInv, ProcessType, States, ValidatedIsCurrent, CompleteNeverFails,
            ServingHoldsLease, Goes
<1>1. ASSUME NEW r \in Replica, Exec(r) PROVE IInv'
  BY <1>1 DEF Exec
<1>2. ASSUME NEW r \in Replica, ParseAndValidate(r) PROVE IInv'
  BY <1>2 DEF ParseAndValidate
<1>3. ASSUME NEW r \in Replica, CompleteOptions(r) PROVE IInv'
  <2>1. Complete(options)
    BY <1>3, ValidateImpliesComplete DEF CompleteOptions
  <2> QED
    BY <1>3, <2>1 DEF CompleteOptions
<1>4. ASSUME NEW r \in Replica, setupManager(r) PROVE IInv'
  BY <1>4 DEF setupManager
<1>5. ASSUME NEW r \in Replica, SetupFails(r) PROVE IInv'
  BY <1>5 DEF SetupFails
<1>6. ASSUME NEW r \in Replica, Elected(r) PROVE IInv'
  BY <1>6, StartupAssumption DEF Elected
<1>7. ASSUME NEW r \in Replica, LosesLease(r) \/ ManagerFails(r) PROVE IInv'
  BY <1>7 DEF LosesLease, ManagerFails
<1>8. ASSUME NEW r \in Replica, Fatal(r) PROVE IInv'
  BY <1>8 DEF Fatal
<1>9. ASSUME NEW r \in Replica, Expires(r) PROVE IInv'
  BY <1>9 DEF Expires
<1>10. ASSUME NEW o \in Options, Redeploy(o) PROVE IInv'
  BY <1>10 DEF Redeploy
<1>11. CASE UNCHANGED vars
  BY <1>11 DEF vars
<1> QED
  BY <1>1, <1>2, <1>3, <1>4, <1>5, <1>6, <1>7, <1>8, <1>9, <1>10, <1>11
     DEF Next, Step

\* The inductive invariant holds always.
LEMMA Invariance == Spec => []IInv
BY InitIInv, IInvStep, PTL DEF Spec
-----------------------------------------------------------------------------
\* What Validate lets through does not fail in Complete, whatever selectors there
\* are and however often the replicas are rolled (options.go:93-106).
LEMMA CompleteIsSafe == Spec => []CompleteNeverFails
<1>1. IInv => CompleteNeverFails
  BY DEF IInv
<1> QED
  BY <1>1, Invariance, PTL

\* Under leader election two replicas never serve at once, in any number of
\* replicas (main.go:110-132, 150-160).
THEOREM AtMostOneServes == Spec => []OneReplicaServes
<1>1. IInv => OneReplicaServes
  <2> DEFINE Serving == {r \in Replica : process[r] \in {"active", "stopped"}}
  <2> SUFFICES ASSUME IInv, options.leaderElection PROVE Cardinality(Serving) <= 1
    BY DEF OneReplicaServes
  <2>1. Serving \subseteq {lease}
    BY DEF IInv, ServingHoldsLease
  <2>2. IsFiniteSet({lease}) /\ Cardinality({lease}) = 1
    BY FS_Singleton
  <2>3. Cardinality(Serving) <= Cardinality({lease})
    BY <2>1, <2>2, FS_Subset
  <2> QED
    BY <2>2, <2>3
<1> QED
  BY <1>1, Invariance, PTL
=============================================================================
