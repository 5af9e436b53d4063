------------------------------ MODULE Startup ------------------------------
(***************************************************************************)
(* The agent process (cmd/init-agent): its command line, the order in      *)
(* which it is set up, and the replicas of it that elect a leader.         *)
(*                                                                         *)
(* main validates the options, builds the logger, completes the options    *)
(* and runs; any error is fatal.  Whoever runs the replicas starts a dead  *)
(* one again.  A manager with leader election starts its controllers once  *)
(* it holds the lease and returns from Start when it loses it, which ends  *)
(* the process and with it every multicluster manager it launched.         *)
(*                                                                         *)
(* The Lease is called "TODO" and lives in "le-ns-todo"; both are literals *)
(* of the program.  A server with Kubernetes' rule for names refuses the   *)
(* capitals: leaseAccepted is FALSE, and an election never ends.  The rule *)
(* is not this program's code, so the server's answer is a choice made     *)
(* once; TRUE is the program with a name that is accepted.                 *)
(***************************************************************************)
EXTENDS Naturals, FiniteSets, TLC

CONSTANTS
    Replica,     \* replicas of the agent
    Selector,    \* values of --init-target-selector
    Parses,      \* those labels.Parse accepts
    NoSelector,  \* the empty string: everything
    Nobody,      \* the lease is free
    MaxFailures  \* bound: failing set-ups, lost leases and edits of the command line

ASSUME StartupAssumption ==
    /\ Parses \subseteq Selector /\ NoSelector \in Selector \ Parses
    /\ Nobody \notin Replica

VARIABLES
    leaseAccepted,  \* the API server accepts the Lease the election asks for
    options,        \* the command line of all replicas
    process,        \* per replica: where main is
    lease,          \* the replica that holds the lease
    failures        \* number of failures and edits so far

vars == <<leaseAccepted, options, process, lease, failures>>
-----------------------------------------------------------------------------
(* Options                                                                 *)

AvailableFormats == {"JSON", "Console"}

\* Format.Set knows the formats in any case and stores their proper names;
\* any other argument ends the parsing of the flags.
Set == "json" :> "JSON" @@ "JSON" :> "JSON" @@ "console" :> "Console"

\* Mutant: the argument is stored as it was given.
Bug_Format(o) == o.format
Format(o) == IF o.format \in DOMAIN Set THEN Set[o.format] ELSE "invalid"

Options == [format: DOMAIN Set \cup {"text"}, configWorkspace: BOOLEAN,
            selector: Selector, leaderElection: BOOLEAN]

\* Mutant: the selector is left to Complete.
Bug_Validate(o) == Format(o) \in AvailableFormats /\ o.configWorkspace
Validate(o) ==
    /\ Format(o) \in AvailableFormats
    /\ o.configWorkspace
    /\ o.selector # NoSelector => o.selector \in Parses

Complete(o) == o.selector # NoSelector => o.selector \in Parses
-----------------------------------------------------------------------------
(* main                                                                    *)

Init ==
    /\ leaseAccepted \in BOOLEAN
    /\ options \in Options
    /\ process = [r \in Replica |-> "dead"]
    /\ lease = Nobody
    /\ failures = 0

Goes(r, from, to) == process[r] = from /\ process' = [process EXCEPT ![r] = to]

Exec(r) == Goes(r, "dead", "started") /\ UNCHANGED <<leaseAccepted, options, lease, failures>>

\* Somebody changes the command line and rolls the replicas.
Redeploy(o) ==
    /\ failures < MaxFailures /\ failures' = failures + 1
    /\ options' = o
    /\ process' = [r \in Replica |-> "dead"]
    /\ lease' = Nobody
    /\ UNCHANGED leaseAccepted

ParseAndValidate(r) ==
    /\ Goes(r, "started", IF Validate(options) THEN "validated" ELSE "dead")
    /\ UNCHANGED <<leaseAccepted, options, lease, failures>>

\* The logger exists when Complete runs, not before Validate.
CompleteOptions(r) ==
    /\ Goes(r, "validated", IF Complete(options) THEN "completed" ELSE "fatal")
    /\ UNCHANGED <<leaseAccepted, options, lease, failures>>

\* run up to mgr.Start: kubeconfig, source factory, manager, target controller.
\* Mutant: the option is not handed to the manager.
Bug_setupManager(r) ==
    /\ Goes(r, "completed", "active")
    /\ UNCHANGED <<leaseAccepted, options, lease, failures>>
setupManager(r) ==
    /\ Goes(r, "completed", IF options.leaderElection THEN "electing" ELSE "active")
    /\ UNCHANGED <<leaseAccepted, options, lease, failures>>

SetupFails(r) ==
    /\ failures < MaxFailures /\ failures' = failures + 1
    /\ Goes(r, "completed", "dead")
    /\ UNCHANGED <<leaseAccepted, options, lease>>

\* An elector whose Lease is refused tries for ever; Start does not return.
Elected(r) ==
    /\ leaseAccepted
    /\ lease = Nobody /\ lease' = r
    /\ Goes(r, "electing", "active")
    /\ UNCHANGED <<leaseAccepted, options, failures>>

\* The manager gives up renewing; its Start returns.
LosesLease(r) ==
    /\ failures < MaxFailures /\ failures' = failures + 1
    /\ lease = r /\ process[r] = "active"
    /\ process' = [process EXCEPT ![r] = "stopped"]
    /\ UNCHANGED <<leaseAccepted, options, lease>>

ManagerFails(r) ==
    /\ failures < MaxFailures /\ failures' = failures + 1
    /\ process[r] = "active"
    /\ process' = [process EXCEPT ![r] = "stopped"]
    /\ UNCHANGED <<leaseAccepted, options, lease>>

\* Complete or mgr.Start returned an error: Fatalw ends the process.
Fatal(r) ==
    /\ process[r] \in {"stopped", "fatal"}
    /\ process' = [process EXCEPT ![r] = "dead"]
    /\ UNCHANGED <<leaseAccepted, options, lease, failures>>

\* The renew deadline is shorter than the lease: by the time the lease runs out
\* the process that lost it has exited.
Expires(r) ==
    /\ lease = r /\ process[r] \notin {"active", "stopped"}
    /\ lease' = Nobody
    /\ UNCHANGED <<leaseAccepted, options, process, failures>>

Step(r) ==
    \/ Exec(r) \/ ParseAndValidate(r) \/ CompleteOptions(r) \/ setupManager(r)
    \/ Elected(r) \/ Fatal(r) \/ Expires(r)

Next ==
    \/ \E r \in Replica :
        Step(r) \/ SetupFails(r) \/ LosesLease(r) \/ ManagerFails(r)
    \/ \E o \in Options : Redeploy(o)

Spec == Init /\ [][Next]_vars

\* A live process goes on, a dead one is started again and a lease nobody
\* renews runs out; that nothing fails is not assumed.
FairSpec == Spec /\ \A r \in Replica : WF_vars(Step(r))
-----------------------------------------------------------------------------
(* Properties                                                              *)

\* "should never happen since it's caught by Validate()" (options.go:99): a
\* command line that Validate lets through does not die in Complete, which parses
\* the selector a second time, also when the replicas are rolled with another.
CompleteNeverFails == \A r \in Replica : process[r] # "fatal"

\* With leader election at most one replica has multicluster managers that
\* initialize workspaces, whichever replica loses the lease or dies when - one
\* that lost it counts until it has exited (main.go:110-132, 150-160).
OneReplicaServes ==
    options.leaderElection =>
        Cardinality({r \in Replica : process[r] \in {"active", "stopped"}}) <= 1

\* Once the failures end some replica serves for good, whatever died before it,
\* if the command line names a format, a config workspace and a selector that
\* parses - or none - and asks for no election, or for one whose Lease the server
\* accepts; otherwise none ever serves again (main.go:57-85, 157-158).
Usable(o) ==
    /\ o.format # "text" /\ o.configWorkspace
    /\ o.selector \in Parses \cup {NoSelector}
    /\ o.leaderElection => leaseAccepted

SomeReplicaServes ==
    <>[](Usable(options) <=> \E r \in Replica : process[r] = "active")
=============================================================================
