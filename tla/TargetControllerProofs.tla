----------------------- MODULE TargetControllerProofs -----------------------
(***************************************************************************)
(* Proofs about TargetController: its type invariant and, for any number   *)
(* of InitTargets, managers, failures and restarts, that a live manager is *)
(* registered, that no InitTarget has two, and that a manager is stopped   *)
(* only for a target on its way out.                                       *)
(*                                                                         *)
(* The argument.  Reaper and reconciler meet only through ctrlCancels.  A  *)
(* reaper is dangerous when its manager is no longer the one registered    *)
(* under its key: its delete would hit a successor.  DoomedKeys says that  *)
(* this happens only when the key is doomed - neither the API server, nor  *)
(* the cache, nor the reconciler's copy shows the target undeleted - and a *)
(* doomed key is never registered again, because UIDs are not reused and a *)
(* deletion mark is never taken back.                                      *)
(***************************************************************************)
EXTENDS InitAgent, TLAPS

\* No view shows a target with UID u that is not being deleted.
Doomed(u) ==
    /\ \A n \in Name : targets[n] # NoTarget /\ targets[n].uid = u => targets[n].deleting
    /\ \A n \in Name : cached[n] # NoTarget /\ cached[n].uid = u => cached[n].deleting
    /\ worker.pc # "idle" /\ worker.target.uid = u => worker.target.deleting

\* UIDs are handed out in order, and each belongs to one name.
UidsUnique ==
    /\ \A n \in Name : targets[n] # NoTarget =>
          targets[n].uid <= created /\ targets[n].name = n
    /\ \A n \in Name : cached[n] # NoTarget =>
          cached[n].uid <= created /\ cached[n].name = n
    /\ worker.pc # "idle" => worker.target.uid <= created
    /\ \A m \in Manager : Exists(m) => managers[m].key <= created
    /\ \A n1, n2 \in Name :
          /\ targets[n1] # NoTarget /\ targets[n2] # NoTarget
             /\ targets[n1].uid = targets[n2].uid => n1 = n2
          /\ cached[n1] # NoTarget /\ targets[n2] # NoTarget
             /\ cached[n1].uid = targets[n2].uid => n1 = n2
          /\ cached[n1] # NoTarget /\ cached[n2] # NoTarget
             /\ cached[n1].uid = cached[n2].uid => n1 = n2

\* A deletion mark in the cache is also in the API server.
CacheLags ==
    \A n \in Name : cached[n] # NoTarget /\ cached[n].deleting =>
        \A n2 \in Name : targets[n2] # NoTarget /\ targets[n2].uid = cached[n].uid
                         => targets[n2].deleting

\* What the reconciler knows at each of its program points.
WorkerKnows ==
    /\ worker.pc \in {"lookup", "prepare", "register"} => ~worker.target.deleting
    /\ worker.pc = "cleanup" => worker.target.deleting /\ Doomed(worker.target.uid)
    /\ worker.pc \in {"prepare", "register"} =>
          /\ worker.target.uid \notin DOMAIN ctrlCancels
          /\ \A m \in Manager : Exists(m) /\ managers[m].key = worker.target.uid
                                => managers[m].reaper = "done"

\* An entry names an existing manager with that key that is not reaped yet.
EntriesValid ==
    \A k \in DOMAIN ctrlCancels :
        LET m == ctrlCancels[k] IN
        Exists(m) /\ managers[m].key = k /\ managers[m].reaper # "done"

LiveUntouched ==
    \A m \in Manager : Live(m) => managers[m].run = "running" /\ managers[m].reaper = "waiting"

\* A manager that is not reaped is either the registered one, or its key is doomed.
DoomedKeys ==
    \A m \in Manager : Exists(m) /\ managers[m].reaper # "done" =>
        \/ managers[m].key \in DOMAIN ctrlCancels /\ ctrlCancels[managers[m].key] = m
        \/ managers[m].key \notin DOMAIN ctrlCancels /\ Doomed(managers[m].key)

StoppedAreDoomed ==
    \A m \in Manager :
        Exists(m) /\ managers[m].ctx = "cancelled" /\ managers[m].run = "running"
        => Doomed(managers[m].key)

IInv ==
    /\ TypeOK
    /\ UidsUnique
    /\ CacheLags
    /\ WorkerKnows
    /\ EntriesValid
    /\ LiveUntouched
    /\ DoomedKeys
    /\ LiveManagerRegistered
    /\ StoppedAreDoomed
-----------------------------------------------------------------------------
\* Every step keeps the type invariant; that a manager to be cancelled exists is
\* known from EntriesValid.
LEMMA TypeOKStep == ASSUME TypeOK, EntriesValid, [Next]_vars PROVE TypeOK'
<1> USE ConstantsAssumption, NoneAssumption DEF TypeOK, kcpVars, informerVars, budgets
<1>1. ASSUME NEW n \in Name, NEW t \in WorkspaceType, NEW l \in Labels, CreateTarget(n, t, l) PROVE TypeOK'
  BY <1>1 DEF CreateTarget, Target, Uid
<1>2. ASSUME NEW n \in Name, NEW t \in WorkspaceType, NEW l \in Labels, EditTarget(n, t, l) PROVE TypeOK'
  <2>1. targets[n] \in Target
    BY <1>2 DEF EditTarget
  <2>2. [targets[n] EXCEPT !.type = t, !.labelled = l] \in Target
    BY <2>1 DEF Target
  <2>3. targets' = [targets EXCEPT ![n] = [targets[n] EXCEPT !.type = t, !.labelled = l]]
    BY <1>2 DEF EditTarget
  <2> QED
    BY <1>2, <2>2, <2>3 DEF EditTarget
<1>3. ASSUME NEW n \in Name, MarkDeleted(n) PROVE TypeOK'
  BY <1>3 DEF MarkDeleted, Target
<1>4. ASSUME NEW n \in Name, RemoveTarget(n) PROVE TypeOK'
  BY <1>4 DEF RemoveTarget
<1>5. ASSUME NEW t \in WorkspaceType, ToggleType(t) PROVE TypeOK'
  BY <1>5 DEF ToggleType
<1>6. ASSUME NEW n \in Name, WatchEvent(n) PROVE TypeOK'
  BY <1>6 DEF WatchEvent
<1>7. ASSUME NEW n \in Name, Resync(n) PROVE TypeOK'
  BY <1>7 DEF Resync
<1>8. ASSUME NEW n \in Name, Reconcile(n) PROVE TypeOK'
  BY <1>8 DEF Reconcile
<1>9. ASSUME LookupController PROVE TypeOK'
  BY <1>9 DEF LookupController, Idle
<1>10. ASSUME PrepareManager PROVE TypeOK'
  BY <1>10 DEF PrepareManager, Idle
<1>11. ASSUME PrepareFails PROVE TypeOK'
  BY <1>11 DEF PrepareFails, Idle, Target
<1>12. ASSUME NEW m \in Manager, RegisterController(m) PROVE TypeOK'
  BY <1>12 DEF RegisterController, getInitTargetKey, MapPut, Idle, Target, ManagerState
<1>13. ASSUME CleanupController PROVE TypeOK'
  <2> DEFINE key == getInitTargetKey(worker.target)
  <2>1. CASE key \in DOMAIN ctrlCancels
    <3> DEFINE m == ctrlCancels[key]
    <3>1. m \in Manager /\ managers[m] \in ManagerState
      BY <2>1 DEF EntriesValid, Exists
    <3>2. [managers[m] EXCEPT !.ctx = "cancelled"] \in ManagerState
      BY <3>1 DEF ManagerState
    <3>3. managers' = [managers EXCEPT ![m] = [managers[m] EXCEPT !.ctx = "cancelled"]]
      BY <1>13, <2>1 DEF CleanupController
    <3> QED
      BY <1>13, <2>1, <3>1, <3>2, <3>3 DEF CleanupController, MapDelete, Idle
  <2>2. CASE key \notin DOMAIN ctrlCancels
    BY <1>13, <2>2 DEF CleanupController, Idle
  <2> QED
    BY <2>1, <2>2
<1>14. ASSUME NEW m \in Manager, ManagerStops(m) PROVE TypeOK'
  BY <1>14 DEF ManagerStops, Exists, ManagerState
<1>15. ASSUME NEW m \in Manager, ReaperLocks(m) PROVE TypeOK'
  BY <1>15 DEF ReaperLocks, Exists, ManagerState
<1>16. ASSUME NEW m \in Manager, ReaperDeletes(m) PROVE TypeOK'
  BY <1>16 DEF ReaperDeletes, Exists, MapDelete, ManagerState
<1>17. ASSUME NEW m \in Manager, Collect(m) PROVE TypeOK'
  BY <1>17 DEF Collect
<1>18. ASSUME NEW m \in Manager, ManagerFails(m) PROVE TypeOK'
  <2>1. managers[m] \in ManagerState
    BY <1>18 DEF ManagerFails, Live, Exists
  <2>2. [managers[m] EXCEPT !.ctx = "cancelled", !.run = "stopped"] \in ManagerState
    BY <2>1 DEF ManagerState
  <2>3. managers' = [managers EXCEPT ![m] =
                       [managers[m] EXCEPT !.ctx = "cancelled", !.run = "stopped"]]
    BY <1>18 DEF ManagerFails
  <2> QED
    BY <1>18, <2>2, <2>3 DEF ManagerFails
<1>19. ASSUME Restart PROVE TypeOK'
  BY <1>19 DEF Restart
<1>20. ASSUME UNCHANGED vars PROVE TypeOK'
  BY <1>20 DEF vars
<1> QED
  BY <1>1, <1>2, <1>3, <1>4, <1>5, <1>6, <1>7, <1>8, <1>9, <1>10, <1>11, <1>12, <1>13,
     <1>14, <1>15, <1>16, <1>17, <1>18, <1>19, <1>20 DEF Next, Administrator, Worker,
     Goroutines

\* Every step keeps the inductive invariant.
LEMMA IInvStep == ASSUME IInv, [Next]_vars PROVE IInv'
<1> USE DEF IInv, kcpVars, informerVars, budgets
<1>0. TypeOK /\ TypeOK'
  BY TypeOKStep
\* A new UID is larger than every UID there is, so it is not a doomed one.
<1>1. ASSUME NEW n \in Name, NEW t \in WorkspaceType, NEW l \in Labels, CreateTarget(n, t, l) PROVE IInv'
  <2>1. UidsUnique'
    BY <1>0, <1>1 DEF CreateTarget, TypeOK, UidsUnique, Exists, Idle, Target,
       ManagerState, Uid
  <2>2. CacheLags'
    BY <1>0, <1>1 DEF CreateTarget, TypeOK, UidsUnique, CacheLags
  <2>3. WorkerKnows'
    BY <1>0, <1>1 DEF CreateTarget, TypeOK, UidsUnique, WorkerKnows, Doomed, Exists
  <2>4. DoomedKeys' /\ StoppedAreDoomed'
    BY <1>0, <1>1 DEF CreateTarget, TypeOK, UidsUnique, DoomedKeys, StoppedAreDoomed,
       Doomed, Exists
  <2>5. EntriesValid' /\ LiveUntouched' /\ LiveManagerRegistered'
    BY <1>1 DEF CreateTarget, EntriesValid, LiveUntouched, LiveManagerRegistered, Live,
       Exists
  <2> QED
    BY <1>0, <2>1, <2>2, <2>3, <2>4, <2>5
\* An edit keeps the UID and the deletion mark.
<1>2. ASSUME NEW n \in Name, NEW t \in WorkspaceType, NEW l \in Labels, EditTarget(n, t, l) PROVE IInv'
  <2>1. UidsUnique'
    BY <1>0, <1>2 DEF EditTarget, TypeOK, UidsUnique, Exists
  <2>2. CacheLags'
    BY <1>0, <1>2 DEF EditTarget, TypeOK, CacheLags
  <2>3. WorkerKnows'
    BY <1>0, <1>2 DEF EditTarget, TypeOK, WorkerKnows, Doomed, Exists
  <2>4. DoomedKeys' /\ StoppedAreDoomed'
    BY <1>0, <1>2 DEF EditTarget, TypeOK, DoomedKeys, StoppedAreDoomed, Doomed, Exists
  <2>5. EntriesValid' /\ LiveUntouched' /\ LiveManagerRegistered'
    BY <1>2 DEF EditTarget, EntriesValid, LiveUntouched, LiveManagerRegistered, Live,
       Exists
  <2> QED
    BY <1>0, <2>1, <2>2, <2>3, <2>4, <2>5
\* A deletion mark can only make more keys doomed.
<1>3. ASSUME NEW n \in Name, MarkDeleted(n) PROVE IInv'
  <2>1. UidsUnique'
    BY <1>3 DEF MarkDeleted, UidsUnique, Exists
  <2>2. CacheLags'
    BY <1>3 DEF MarkDeleted, CacheLags
  <2>3. WorkerKnows'
    BY <1>3 DEF MarkDeleted, WorkerKnows, Doomed, Exists
  <2>4. DoomedKeys' /\ StoppedAreDoomed'
    BY <1>3 DEF MarkDeleted, DoomedKeys, StoppedAreDoomed, Doomed, Exists
  <2>5. EntriesValid' /\ LiveUntouched' /\ LiveManagerRegistered'
    BY <1>3 DEF MarkDeleted, EntriesValid, LiveUntouched, LiveManagerRegistered, Live,
       Exists
  <2> QED
    BY <1>0, <2>1, <2>2, <2>3, <2>4, <2>5
<1>4. ASSUME NEW n \in Name, RemoveTarget(n) PROVE IInv'
  <2>1. UidsUnique'
    BY <1>4 DEF RemoveTarget, UidsUnique, Exists
  <2>2. CacheLags'
    BY <1>4 DEF RemoveTarget, CacheLags
  <2>3. WorkerKnows'
    BY <1>4 DEF RemoveTarget, WorkerKnows, Doomed, Exists
  <2>4. DoomedKeys' /\ StoppedAreDoomed'
    BY <1>4 DEF RemoveTarget, DoomedKeys, StoppedAreDoomed, Doomed, Exists
  <2>5. EntriesValid' /\ LiveUntouched' /\ LiveManagerRegistered'
    BY <1>4 DEF RemoveTarget, EntriesValid, LiveUntouched, LiveManagerRegistered, Live,
       Exists
  <2> QED
    BY <1>0, <2>1, <2>2, <2>3, <2>4, <2>5
<1>5. ASSUME NEW t \in WorkspaceType, ToggleType(t) PROVE IInv'
  BY <1>0, <1>5 DEF ToggleType, UidsUnique, CacheLags, WorkerKnows, EntriesValid,
     LiveUntouched, DoomedKeys, LiveManagerRegistered, StoppedAreDoomed, Doomed, Live,
     Exists
\* The cache takes over what the API server has: no doomed key comes back.
<1>6. ASSUME NEW n \in Name, WatchEvent(n) PROVE IInv'
  <2>1. UidsUnique'
    BY <1>6 DEF WatchEvent, UidsUnique, Exists
  <2>2. CacheLags'
    BY <1>6 DEF WatchEvent, UidsUnique, CacheLags
  <2>3. WorkerKnows'
    BY <1>6 DEF WatchEvent, WorkerKnows, Doomed, Exists
  <2>4. DoomedKeys' /\ StoppedAreDoomed'
    BY <1>6 DEF WatchEvent, DoomedKeys, StoppedAreDoomed, Doomed, Exists
  <2>5. EntriesValid' /\ LiveUntouched' /\ LiveManagerRegistered'
    BY <1>6 DEF WatchEvent, EntriesValid, LiveUntouched, LiveManagerRegistered, Live,
       Exists
  <2> QED
    BY <1>0, <2>1, <2>2, <2>3, <2>4, <2>5
<1>7. ASSUME NEW n \in Name, Resync(n) PROVE IInv'
  BY <1>0, <1>7 DEF Resync, UidsUnique, CacheLags, WorkerKnows, EntriesValid,
     LiveUntouched, DoomedKeys, LiveManagerRegistered, StoppedAreDoomed, Doomed, Live,
     Exists
\* What the reconciler copies from the cache is doomed if the cached target is being
\* deleted (UIDs are unique, and the cache lags behind the API server).
<1>8. ASSUME NEW n \in Name, Reconcile(n) PROVE IInv'
  <2>1. UidsUnique'
    BY <1>8 DEF Reconcile, UidsUnique, Exists
  <2>2. WorkerKnows'
    BY <1>8 DEF Reconcile, UidsUnique, CacheLags, WorkerKnows, Doomed, Exists
  <2>3. DoomedKeys' /\ StoppedAreDoomed'
    BY <1>8 DEF Reconcile, DoomedKeys, StoppedAreDoomed, Doomed, Exists
  <2>4. CacheLags' /\ EntriesValid' /\ LiveUntouched' /\ LiveManagerRegistered'
    BY <1>8 DEF Reconcile, CacheLags, EntriesValid, LiveUntouched,
       LiveManagerRegistered, Live, Exists
  <2> QED
    BY <1>0, <2>1, <2>2, <2>3, <2>4
\* The target has no entry and its key is not doomed: DoomedKeys says that every
\* manager it ever had is reaped.
<1>9. ASSUME LookupController PROVE IInv'
  <2>1. WorkerKnows'
    BY <1>9 DEF LookupController, WorkerKnows, DoomedKeys, Doomed, Exists,
       getInitTargetKey, Idle
  <2>2. UidsUnique' /\ DoomedKeys' /\ StoppedAreDoomed'
    BY <1>9 DEF LookupController, UidsUnique, DoomedKeys, StoppedAreDoomed, Doomed,
       Exists, Idle
  <2>3. CacheLags' /\ EntriesValid' /\ LiveUntouched' /\ LiveManagerRegistered'
    BY <1>9 DEF LookupController, CacheLags, EntriesValid, LiveUntouched,
       LiveManagerRegistered, Live, Exists
  <2> QED
    BY <1>0, <2>1, <2>2, <2>3
<1>10. ASSUME PrepareManager PROVE IInv'
  <2>1. WorkerKnows'
    BY <1>10 DEF PrepareManager, WorkerKnows, Exists
  <2>2. UidsUnique' /\ DoomedKeys' /\ StoppedAreDoomed'
    BY <1>10 DEF PrepareManager, UidsUnique, DoomedKeys, StoppedAreDoomed, Doomed,
       Exists
  <2>3. CacheLags' /\ EntriesValid' /\ LiveUntouched' /\ LiveManagerRegistered'
    BY <1>10 DEF PrepareManager, CacheLags, EntriesValid, LiveUntouched,
       LiveManagerRegistered, Live, Exists
  <2> QED
    BY <1>0, <2>1, <2>2, <2>3
<1>11. ASSUME PrepareFails PROVE IInv'
  <2>1. WorkerKnows'
    BY <1>11 DEF PrepareFails, WorkerKnows, Idle
  <2>2. UidsUnique' /\ DoomedKeys' /\ StoppedAreDoomed'
    BY <1>11 DEF PrepareFails, UidsUnique, DoomedKeys, StoppedAreDoomed, Doomed, Exists,
       Idle
  <2>3. CacheLags' /\ EntriesValid' /\ LiveUntouched' /\ LiveManagerRegistered'
    BY <1>11 DEF PrepareFails, CacheLags, EntriesValid, LiveUntouched,
       LiveManagerRegistered, Live, Exists
  <2> QED
    BY <1>0, <2>1, <2>2, <2>3
\* There was no entry under the key and no unreaped manager with it.
<1>12. ASSUME NEW m \in Manager, RegisterController(m) PROVE IInv'
  <2>1. UidsUnique' /\ CacheLags' /\ WorkerKnows'
    BY <1>12 DEF RegisterController, UidsUnique, CacheLags, WorkerKnows, Exists,
       getInitTargetKey, Idle
  <2>2. EntriesValid'
    BY NoneAssumption, <1>0, <1>12 DEF RegisterController, TypeOK, EntriesValid, Exists,
       MapPut, Idle, Target, ManagerState
  <2>3. LiveUntouched'
    BY <1>12 DEF RegisterController, LiveUntouched, Live, Exists
  <2>4. DoomedKeys'
    BY <1>12 DEF RegisterController, WorkerKnows, DoomedKeys, Doomed, Exists,
       getInitTargetKey, MapPut, Idle
  <2>5. LiveManagerRegistered'
    BY <1>12 DEF RegisterController, WorkerKnows, LiveManagerRegistered, Live, Exists,
       getInitTargetKey, MapPut
  <2>6. StoppedAreDoomed'
    BY <1>12 DEF RegisterController, StoppedAreDoomed, Doomed, Exists, Idle
  <2> QED
    BY <1>0, <2>1, <2>2, <2>3, <2>4, <2>5, <2>6
\* The manager that is cancelled has the key of the reconciler's target, which is doomed.
<1>13. ASSUME CleanupController PROVE IInv'
  <2>1. UidsUnique'
    BY <1>0, <1>13 DEF CleanupController, TypeOK, UidsUnique, EntriesValid, Exists,
       Idle, ManagerState
  <2>2. CacheLags' /\ WorkerKnows'
    BY <1>13 DEF CleanupController, CacheLags, WorkerKnows, Idle
  <2>3. EntriesValid'
    BY <1>0, <1>13 DEF CleanupController, TypeOK, EntriesValid, Exists, MapDelete, Idle
  <2>4. LiveUntouched'
    BY <1>0, <1>13 DEF CleanupController, TypeOK, LiveUntouched, Live, Exists,
       ManagerState
  <2>5. DoomedKeys'
    BY <1>0, <1>13 DEF CleanupController, TypeOK, WorkerKnows, EntriesValid, DoomedKeys,
       Doomed, Exists, getInitTargetKey, MapDelete, Idle, ManagerState
  <2>6. LiveManagerRegistered'
    BY <1>0, <1>13 DEF CleanupController, TypeOK, LiveManagerRegistered, Live, Exists,
       MapDelete, ManagerState
  <2>7. StoppedAreDoomed'
    BY <1>0, <1>13 DEF CleanupController, TypeOK, WorkerKnows, EntriesValid,
       StoppedAreDoomed, Doomed, Exists, getInitTargetKey, Idle, ManagerState
  <2> QED
    BY <1>0, <2>1, <2>2, <2>3, <2>4, <2>5, <2>6, <2>7
<1>14. ASSUME NEW m \in Manager, ManagerStops(m) PROVE IInv'
  <2>1. UidsUnique' /\ CacheLags' /\ WorkerKnows'
    BY <1>14 DEF ManagerStops, UidsUnique, CacheLags, WorkerKnows, Doomed, Exists
  <2>2. EntriesValid'
    BY NoneAssumption, <1>0, <1>14 DEF ManagerStops, TypeOK, EntriesValid, Exists,
       ManagerState
  <2>3. LiveUntouched' /\ DoomedKeys' /\ LiveManagerRegistered' /\ StoppedAreDoomed'
    BY <1>14 DEF ManagerStops, LiveUntouched, DoomedKeys, LiveManagerRegistered,
       StoppedAreDoomed, Doomed, Live, Exists
  <2> QED
    BY <1>0, <2>1, <2>2, <2>3
<1>15. ASSUME NEW m \in Manager, ReaperLocks(m) PROVE IInv'
  <2>1. UidsUnique' /\ CacheLags' /\ WorkerKnows'
    BY <1>15 DEF ReaperLocks, UidsUnique, CacheLags, WorkerKnows, Doomed, Exists
  <2>2. EntriesValid'
    BY NoneAssumption, <1>0, <1>15 DEF ReaperLocks, TypeOK, EntriesValid, Exists,
       ManagerState
  <2>3. LiveUntouched' /\ DoomedKeys' /\ LiveManagerRegistered' /\ StoppedAreDoomed'
    BY <1>15 DEF ReaperLocks, LiveUntouched, DoomedKeys, LiveManagerRegistered,
       StoppedAreDoomed, Doomed, Live, Exists
  <2> QED
    BY <1>0, <2>1, <2>2, <2>3
\* The manager being reaped is not live: what it deletes is its own entry or, its key
\* being doomed, nothing.
<1>16. ASSUME NEW m \in Manager, ReaperDeletes(m) PROVE IInv'
  <2>1. UidsUnique' /\ CacheLags' /\ WorkerKnows'
    BY <1>16 DEF ReaperDeletes, UidsUnique, CacheLags, WorkerKnows, Doomed, Exists,
       MapDelete
  <2>2. EntriesValid'
    BY <1>16 DEF ReaperDeletes, EntriesValid, Exists, MapDelete
  <2>3. DoomedKeys'
    BY <1>0, <1>16 DEF ReaperDeletes, TypeOK, DoomedKeys, Doomed, Exists, MapDelete
  <2>4. LiveUntouched' /\ StoppedAreDoomed'
    BY <1>16 DEF ReaperDeletes, LiveUntouched, StoppedAreDoomed, Doomed, Live, Exists
  <2>5. LiveManagerRegistered'
    BY <1>16 DEF ReaperDeletes, LiveUntouched, DoomedKeys, LiveManagerRegistered, Live,
       Exists, MapDelete
  <2> QED
    BY <1>0, <2>1, <2>2, <2>3, <2>4, <2>5
<1>17. ASSUME NEW m \in Manager, Collect(m) PROVE IInv'
  <2>1. UidsUnique' /\ CacheLags' /\ WorkerKnows'
    BY <1>17 DEF Collect, UidsUnique, CacheLags, WorkerKnows, Doomed, Exists
  <2>2. EntriesValid'
    BY <1>17 DEF Collect, EntriesValid, Exists
  <2>3. LiveUntouched' /\ DoomedKeys' /\ LiveManagerRegistered' /\ StoppedAreDoomed'
    BY <1>17 DEF Collect, LiveUntouched, DoomedKeys, LiveManagerRegistered,
       StoppedAreDoomed, Doomed, Live, Exists
  <2> QED
    BY <1>0, <2>1, <2>2, <2>3
<1>18. ASSUME NEW m \in Manager, ManagerFails(m) PROVE IInv'
  <2>1. UidsUnique' /\ CacheLags' /\ WorkerKnows'
    BY <1>0, <1>18 DEF ManagerFails, TypeOK, UidsUnique, CacheLags, WorkerKnows, Doomed,
       Live, Exists
  <2>2. EntriesValid'
    BY NoneAssumption, <1>0, <1>18 DEF ManagerFails, TypeOK, EntriesValid, Exists,
       ManagerState
  <2>3. LiveUntouched'
    BY <1>0, <1>18 DEF ManagerFails, TypeOK, LiveUntouched, Live, Exists
  <2>4. DoomedKeys'
    BY <1>0, <1>18 DEF ManagerFails, TypeOK, DoomedKeys, Doomed, Live, Exists
  <2>5. LiveManagerRegistered'
    BY <1>0, <1>18 DEF ManagerFails, TypeOK, LiveManagerRegistered, Live, Exists
  <2>6. StoppedAreDoomed'
    BY <1>0, <1>18 DEF ManagerFails, TypeOK, StoppedAreDoomed, Doomed, Exists
  <2> QED
    BY <1>0, <2>1, <2>2, <2>3, <2>4, <2>5, <2>6
\* Nothing is left of managers and entries.
<1>19. ASSUME Restart PROVE IInv'
  <2>1. UidsUnique' /\ CacheLags' /\ WorkerKnows'
    BY <1>19 DEF Restart, UidsUnique, CacheLags, WorkerKnows, Exists, Idle
  <2>2. EntriesValid' /\ LiveUntouched' /\ DoomedKeys' /\ LiveManagerRegistered' /\ StoppedAreDoomed'
    BY <1>19 DEF Restart, EntriesValid, LiveUntouched, DoomedKeys,
       LiveManagerRegistered, StoppedAreDoomed, Live, Exists
  <2> QED
    BY <1>0, <2>1, <2>2
<1>20. ASSUME UNCHANGED vars PROVE IInv'
  BY <1>0, <1>20 DEF vars, UidsUnique, CacheLags, WorkerKnows, EntriesValid,
     LiveUntouched, DoomedKeys, LiveManagerRegistered, StoppedAreDoomed, Doomed, Exists,
     Live
<1> QED
  BY <1>1, <1>2, <1>3, <1>4, <1>5, <1>6, <1>7, <1>8, <1>9, <1>10, <1>11, <1>12, <1>13,
     <1>14, <1>15, <1>16, <1>17, <1>18, <1>19, <1>20 DEF Next, Administrator, Worker,
     Goroutines

\* At the start there is no manager.
LEMMA InitIInv == Init => IInv
  BY ConstantsAssumption
     DEF Init, IInv, TypeOK, UidsUnique, CacheLags, WorkerKnows, EntriesValid, LiveUntouched,
         DoomedKeys, LiveManagerRegistered, StoppedAreDoomed, Doomed, Exists, Live, Idle

\* The inductive invariant holds always.
LEMMA Invariance == Spec => []IInv
<1>1. Init => IInv
  BY InitIInv
<1>2. IInv /\ [Next]_vars => IInv'
  BY IInvStep
<1> QED
  BY <1>1, <1>2, PTL DEF Spec
-----------------------------------------------------------------------------
\* The variables keep their types for any number of names, managers, failures
\* and restarts (the state of targetcontroller.Reconciler, controller.go:55).
THEOREM TypeCorrect == Spec => []TypeOK
<1>1. IInv => TypeOK
  BY DEF IInv
<1> QED
  BY <1>1, Invariance, PTL

\* The map always holds the cancel func of every live manager: no reaper deletes
\* the entry of another manager (controller.go:159-169).
THEOREM LiveManagersAreRegistered == Spec => []LiveManagerRegistered
<1>1. IInv => LiveManagerRegistered
  BY DEF IInv
<1> QED
  BY <1>1, Invariance, PTL

\* The steps that do anything to a manager.
LEMMA ManagerSteps ==
    ASSUME [Next]_vars
    PROVE  \/ \E m \in Manager : RegisterController(m)
           \/ CleanupController
           \/ \E m \in Manager : Goroutines(m) \/ ManagerFails(m)
           \/ Restart
           \/ UNCHANGED managers
<1>1. CASE Administrator
  BY <1>1 DEF Administrator, CreateTarget, EditTarget, MarkDeleted, RemoveTarget, ToggleType
<1>2. CASE \E n \in Name : WatchEvent(n) \/ Resync(n) \/ Reconcile(n)
  BY <1>2 DEF WatchEvent, Resync, Reconcile
<1>3. CASE Worker
  BY <1>3 DEF Worker, LookupController, PrepareManager, PrepareFails
<1> QED
  BY <1>1, <1>2, <1>3 DEF Next, vars

\* A manager is started only when no other one runs under its key: a live one is
\* in the map, and of one told to stop the target is being deleted.
LEMMA OneRunningStep ==
    ASSUME IInv, OneRunningManagerPerTarget, [Next]_vars
    PROVE  OneRunningManagerPerTarget'
<1> USE DEF OneRunningManagerPerTarget, Runs
<1>0. TypeOK
  BY DEF IInv
<1>1. ASSUME NEW m \in Manager, RegisterController(m) PROVE OneRunningManagerPerTarget'
  <2>1. ASSUME NEW other \in Manager, Runs(other),
               managers[other].key = worker.target.uid
        PROVE  FALSE
    <3>1. worker.pc = "register" /\ ~worker.target.deleting /\ managers[other].reaper = "done"
      BY <1>1, <2>1 DEF RegisterController, IInv, WorkerKnows
    <3>2. CASE managers[other].ctx = "live"
      BY <2>1, <3>1, <3>2 DEF IInv, LiveUntouched, Live
    <3>3. CASE managers[other].ctx = "cancelled"
      BY <2>1, <3>1, <3>3 DEF IInv, StoppedAreDoomed, Doomed
    <3> QED
      BY <1>0, <2>1, <3>2, <3>3 DEF TypeOK, ManagerState, Exists
  <2> QED
    BY <1>0, <1>1, <2>1 DEF RegisterController, TypeOK, Exists, getInitTargetKey
<1>2. ASSUME CleanupController PROVE OneRunningManagerPerTarget'
  BY <1>0, <1>2 DEF CleanupController, IInv, EntriesValid, TypeOK, Exists, ManagerState
<1>3. ASSUME NEW m \in Manager, Goroutines(m) \/ ManagerFails(m)
      PROVE  OneRunningManagerPerTarget'
  <2>1. ASSUME NEW x \in Manager, Runs(x)'
        PROVE  Runs(x) /\ managers'[x].key = managers[x].key
    BY <1>0, <1>3, <2>1 DEF Goroutines, ManagerStops, ReaperLocks, ReaperDeletes, Collect,
       ManagerFails, TypeOK, ManagerState, Live, Exists
  <2> HIDE DEF Runs
  <2> QED
    BY <2>1
<1>4. ASSUME Restart PROVE OneRunningManagerPerTarget'
  BY <1>4 DEF Restart, Exists
<1>5. ASSUME UNCHANGED managers PROVE OneRunningManagerPerTarget'
  BY <1>5 DEF Exists
<1> QED
  <2> HIDE DEF OneRunningManagerPerTarget, Runs
  <2> QED
    BY <1>1, <1>2, <1>3, <1>4, <1>5, ManagerSteps

\* At the start none runs.
LEMMA InitOneRunning == Init => OneRunningManagerPerTarget
BY DEF Init, OneRunningManagerPerTarget, Runs, Exists

\* There are never two managers running for one InitTarget, although the
\* reconciler looks into the map long before it writes to it
\* (controller.go:129-159).
THEOREM OneRunningManager == Spec => []OneRunningManagerPerTarget
<1>1. Init => OneRunningManagerPerTarget
  BY InitOneRunning
<1>2. IInv /\ OneRunningManagerPerTarget /\ [Next]_vars => OneRunningManagerPerTarget'
  BY OneRunningStep
<1> QED
  BY <1>1, <1>2, Invariance, PTL DEF Spec

\* A running manager is cancelled only when its InitTarget is being deleted or is
\* gone (cleanupController, controller.go:182-196).
THEOREM StopsOnlyDeleted == Spec => []StoppedOnlyWhenDeleted
<1>1. IInv => StoppedOnlyWhenDeleted
  BY DEF IInv, StoppedAreDoomed, Doomed, StoppedOnlyWhenDeleted
<1> QED
  BY <1>1, Invariance, PTL
-----------------------------------------------------------------------------
(* The whole agent.                                                        *)

\* A pass is one of a running manager, with an InitTarget of its name.
PassesOfManagers ==
    /\ passes \in [Manager -> [Cluster -> Target \cup {NoTarget}]]
    /\ \A m \in Manager, c \in Cluster : InPass(m, c) =>
          Runs(m) /\ passes[m][c].name = managers[m].name

AgentInv == IInv /\ OneRunningManagerPerTarget /\ PassesOfManagers

\* At the start there is no pass.
LEMMA InitAgentInv == AgentInit => AgentInv
BY InitIInv, InitOneRunning
   DEF AgentInit, AgentInv, PassesOfManagers, InPass, NoPasses

\* A step of the target controller ends the passes of the managers it stops; the
\* others keep their names.
LEMMA ControllerStep == ASSUME AgentInv, Controller(Next) PROVE AgentInv'
<1>1. IInv' /\ OneRunningManagerPerTarget'
  BY IInvStep, OneRunningStep DEF AgentInv, Controller
<1>2. ASSUME NEW m \in Manager, Runs(m), Runs(m)'
      PROVE  managers'[m].name = managers[m].name
  <2>1. TypeOK
    BY DEF AgentInv, IInv
  <2>2. [Next]_vars
    BY DEF Controller
  <2>3. ASSUME NEW other \in Manager, RegisterController(other)
        PROVE  managers'[m].name = managers[m].name
    BY <1>2, <2>1, <2>3 DEF RegisterController, TypeOK, Runs, Exists
  <2>4. CASE CleanupController
    BY <1>2, <2>1, <2>4 DEF CleanupController, TypeOK, ManagerState, Runs, Exists
  <2>5. ASSUME NEW other \in Manager, Goroutines(other) \/ ManagerFails(other)
        PROVE  managers'[m].name = managers[m].name
    BY <1>2, <2>1, <2>5 DEF Goroutines, ManagerStops, ReaperLocks, ReaperDeletes, Collect,
       ManagerFails, TypeOK, ManagerState, Runs, Exists, Live
  <2>6. CASE Restart
    BY <1>2, <2>6 DEF Restart, Runs, Exists
  <2> QED
    BY <2>2, <2>3, <2>4, <2>5, <2>6, ManagerSteps
<1>3. passes' = [m \in Manager |-> IF Runs(m)' THEN passes[m] ELSE NoPasses]
  BY DEF Controller
<1>4. PassesOfManagers'
  BY <1>2, <1>3 DEF AgentInv, PassesOfManagers, InPass, NoPasses
<1> QED
  BY <1>1, <1>4 DEF AgentInv

\* The other steps leave the target controller alone, up to the count of failures.
LEMMA PassStep ==
    ASSUME AgentInv, NEW m \in Manager, NEW c \in Cluster,
           BeginPass(m, c) \/ EndPass(m, c) \/ PassFails(m, c)
    PROVE  AgentInv'
<1>1. UNCHANGED <<targets, types, created, cached, queue, worker, ctrlCancels, managers, crashes>>
  BY DEF BeginPass, EndPass, PassFails, vars
<1>2. TypeOK'
  BY <1>1, ConstantsAssumption DEF BeginPass, EndPass, PassFails, vars, AgentInv, IInv, TypeOK
<1>3. IInv'
  BY <1>1, <1>2
     DEF AgentInv, IInv, UidsUnique, CacheLags, WorkerKnows, EntriesValid, LiveUntouched,
         DoomedKeys, LiveManagerRegistered, StoppedAreDoomed, Doomed, Exists, Live
<1>4. OneRunningManagerPerTarget'
  BY <1>1 DEF AgentInv, OneRunningManagerPerTarget, Runs, Exists
<1>5. PassesOfManagers'
  <2>1. CASE BeginPass(m, c)
    <3>1. /\ managers[m].name \in Name /\ cached[managers[m].name] \in Target
          /\ cached[managers[m].name].name = managers[m].name
      BY <2>1 DEF BeginPass, newInitTargetProvider, AgentInv, IInv, TypeOK, UidsUnique,
         Runs, Exists, ManagerState
    <3>2. /\ Runs(m) /\ UNCHANGED managers
          /\ passes' = [passes EXCEPT ![m] = [passes[m] EXCEPT ![c] = cached[managers[m].name]]]
      BY <1>1, <2>1 DEF BeginPass, newInitTargetProvider
    <3> QED
      BY <3>1, <3>2 DEF AgentInv, PassesOfManagers, InPass, Runs, Exists
  <2>2. CASE EndPass(m, c) \/ PassFails(m, c)
    <3>1. /\ UNCHANGED managers
          /\ passes' = [passes EXCEPT ![m] = [passes[m] EXCEPT ![c] = NoTarget]]
      BY <1>1, <2>2 DEF EndPass, PassFails
    <3> QED
      BY <3>1 DEF AgentInv, PassesOfManagers, InPass, Runs, Exists
  <2> QED
    BY <2>1, <2>2
<1> QED
  BY <1>3, <1>4, <1>5 DEF AgentInv

\* Every step of the agent keeps its invariant.
LEMMA AgentStep == ASSUME AgentInv, [AgentNext]_agentVars PROVE AgentInv'
<1>1. CASE UNCHANGED vars /\ UNCHANGED passes
  <2>1. IInv' /\ OneRunningManagerPerTarget'
    BY <1>1, IInvStep, OneRunningStep DEF AgentInv
  <2>2. PassesOfManagers'
    BY <1>1 DEF AgentInv, PassesOfManagers, InPass, Runs, Exists, vars
  <2> QED
    BY <2>1, <2>2 DEF AgentInv
<1> QED
  BY <1>1, ControllerStep, PassStep DEF AgentNext, NewCluster, agentVars

\* The invariant of the agent holds always.
LEMMA AgentInvariance == AgentSpec => []AgentInv
<1>1. AgentInit => AgentInv
  BY InitAgentInv
<1>2. AgentInv /\ [AgentNext]_agentVars => AgentInv'
  BY AgentStep
<1> QED
  BY <1>1, <1>2, PTL DEF AgentSpec

\* In the whole agent no cluster is ever in two passes for one InitTarget
\* (controller.go:129-170, 226-236).
THEOREM OnePass == AgentSpec => []OnePassPerTarget
<1>1. AgentInv => OnePassPerTarget
  BY DEF AgentInv, OneRunningManagerPerTarget, PassesOfManagers, OnePassPerTarget
<1> QED
  BY <1>1, AgentInvariance, PTL

\* What holds of the target controller alone holds in the whole agent.
THEOREM AgentKeepsManagers ==
    AgentSpec => [](TypeOK /\ LiveManagerRegistered /\ OneRunningManagerPerTarget
                           /\ StoppedOnlyWhenDeleted)
<1>1. AgentInv => /\ TypeOK /\ LiveManagerRegistered /\ OneRunningManagerPerTarget
                  /\ StoppedOnlyWhenDeleted
  BY DEF AgentInv, IInv, StoppedAreDoomed, Doomed, StoppedOnlyWhenDeleted
<1> QED
  BY <1>1, AgentInvariance, PTL
=============================================================================
