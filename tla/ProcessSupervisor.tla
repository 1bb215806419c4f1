-------------------------- MODULE ProcessSupervisor --------------------------
(***************************************************************************)
(* runSupervisedCommand (src/src/lib/process-supervisor.ts): one command   *)
(* below a guard process, and the proof that its process tree is gone      *)
(* before the call returns.                                                *)
(*                                                                         *)
(* A command line makes one call after the other.  A step is one callback  *)
(* of the event loop (a message of the guard, a timer, a signal, the end   *)
(* of an awaited promise) or a step of a process below it.  The callbacks  *)
(* race; the first one to finalize decides the error, and the cleanup it   *)
(* waits for decides whether the call is verified.                         *)
(***************************************************************************)
EXTENDS Naturals, FiniteSets

CONSTANTS
  Cli,          \* the running command lines
  MaxFaults     \* bound: failing calls and commands, signals and deaths of each

VARIABLES
  windows,      \* the commands are contained by a Job Object, not a scope
  call,         \* the state of each command line's supervised call
  guard,        \* its guard process: not spawned, live or dead
  job,          \* pendingWindowsJob and windowsJob
  writers,      \* the live processes below the guard
  exited,       \* the completion message the guard has sent
  verdict,      \* what finalizing decided; then what the call returned
  signalled,    \* the calls in which a signal was received
  interrupted,  \* ghost: the ones that ever received one before finalizing
  faults        \* how many faults each has had

supervisor == <<windows, call, guard, job, writers, exited, verdict, signalled, interrupted>>

Active == {"waiting", "assigning", "running"}
Unverified == {"tree", "containment"}

SupervisorTypeOK ==
  /\ windows \in BOOLEAN
  /\ call \in [Cli -> {"none", "cleanup", "settled"} \cup Active]
  /\ guard \in [Cli -> {"none", "live", "dead"}]
  /\ job \in [Cli -> {"none", "pending", "made"}]
  /\ writers \in [Cli -> SUBSET {"command", "daemon"}]
  /\ exited \in [Cli -> {"no", "zero", "other"}]
  /\ verdict \in [Cli -> {"ok", "error", "interrupted"} \cup Unverified]
  /\ signalled \subseteq Cli /\ interrupted \subseteq Cli
  /\ \A p \in Cli : call[p] = "assigning" => job[p] = "pending"
  /\ faults \in [Cli -> Nat] /\ \A p \in Cli : faults[p] <= MaxFaults[p]

SupervisorInit ==
  /\ windows \in BOOLEAN
  /\ call = [p \in Cli |-> "none"] /\ guard = [p \in Cli |-> "none"]
  /\ job = [p \in Cli |-> "none"] /\ writers = [p \in Cli |-> {}]
  /\ exited = [p \in Cli |-> "no"] /\ verdict = [p \in Cli |-> "ok"]
  /\ signalled = {} /\ interrupted = {}
  /\ faults = [p \in Cli |-> 0]

Fault(p) == faults[p] < MaxFaults[p] /\ faults' = [faults EXCEPT ![p] = @ + 1]

\* The call of p changes its state; what a step does not name stays.
Enter(p, state) == call' = [call EXCEPT ![p] = state]

\* What a call knew is gone with it.
Forget(p) ==
  /\ Enter(p, "none") /\ job' = [job EXCEPT ![p] = "none"]
  /\ exited' = [exited EXCEPT ![p] = "no"] /\ verdict' = [verdict EXCEPT ![p] = "ok"]
  /\ signalled' = signalled \ {p}

-----------------------------------------------------------------------------
(* The start: spawn, readiness, containment, command. *)

\* Mutant: a call starts out with waiting for a Job Object that nobody makes.
SpawnAssigning(p) ==
  /\ Enter(p, "assigning") /\ guard' = [guard EXCEPT ![p] = "live"]
  /\ verdict' = [verdict EXCEPT ![p] = "ok"]
  /\ UNCHANGED <<windows, job, writers, exited, signalled, interrupted, faults>>

\* A new call.  The guard may fail to spawn: then it has no pid.
Spawn(p) ==
  /\ \/ /\ Enter(p, "waiting") /\ guard' = [guard EXCEPT ![p] = "live"]
        /\ verdict' = [verdict EXCEPT ![p] = "ok"] /\ UNCHANGED faults
     \/ /\ Enter(p, "cleanup") /\ guard' = [guard EXCEPT ![p] = "none"]
        /\ verdict' = [verdict EXCEPT ![p] = "error"] /\ Fault(p)
  /\ UNCHANGED <<windows, job, writers, exited, signalled, interrupted>>

\* failAfterVerifiedCleanup and succeedAfterVerifiedCleanup: the first one
\* called decides, and the others return at once.
Finalize(p, decision) ==
  /\ Enter(p, "cleanup") /\ verdict' = [verdict EXCEPT ![p] = decision]

\* startCommand: the guard spawns the command, or says that it cannot.
StartCommand(p) ==
  /\ Enter(p, "running")
  /\ \/ writers' = [writers EXCEPT ![p] = {"command"}] /\ UNCHANGED <<exited, faults>>
     \/ exited' = [exited EXCEPT ![p] = "other"] /\ Fault(p) /\ UNCHANGED writers

\* ghostinit:ready.  On Windows the guard is put into a Job Object first.
GuardReady(p) ==
  /\ call[p] = "waiting" /\ guard[p] = "live"
  /\ IF windows
     THEN /\ Enter(p, "assigning") /\ job' = [job EXCEPT ![p] = "pending"]
          /\ UNCHANGED <<writers, exited, faults>>
     ELSE StartCommand(p) /\ UNCHANGED job
  /\ UNCHANGED <<windows, guard, verdict, signalled, interrupted>>

\* Mutant: the command is not started when the Job Object is there.
JobIdles(p) ==
  /\ job[p] = "pending" /\ job' = [job EXCEPT ![p] = "made"]
  /\ UNCHANGED <<windows, call, guard, writers, exited, verdict, signalled, interrupted, faults>>

\* createWindowsInstallerJob resolves or rejects; it may do so while the call
\* is already cleaning up, and then no command is started.
JobResolves(p) ==
  /\ job[p] = "pending"
  /\ \/ /\ job' = [job EXCEPT ![p] = "made"] /\ call[p] = "assigning"
        /\ StartCommand(p) /\ UNCHANGED verdict
     \/ /\ job' = [job EXCEPT ![p] = "made"] /\ call[p] = "cleanup"
        /\ UNCHANGED <<call, writers, exited, verdict, faults>>
     \/ /\ job' = [job EXCEPT ![p] = "none"] /\ Fault(p)
        /\ IF call[p] = "assigning" THEN Finalize(p, "containment") ELSE UNCHANGED <<call, verdict>>
        /\ UNCHANGED <<writers, exited>>
  /\ UNCHANGED <<windows, guard, signalled, interrupted>>

-----------------------------------------------------------------------------
(* What ends a call. *)

\* ghostinit:complete
Complete(p) ==
  /\ call[p] = "running" /\ exited[p] # "no"
  /\ Finalize(p, IF exited[p] = "zero" THEN "ok" ELSE "error")
  /\ UNCHANGED <<windows, guard, job, writers, exited, signalled, interrupted, faults>>

\* The timer of the command, or that of the guard's readiness.
Timeout(p) ==
  /\ call[p] \in {"waiting", "running"}
  /\ Finalize(p, "error")
  /\ UNCHANGED <<windows, guard, job, writers, exited, signalled, interrupted, faults>>

\* Mutant: a signal is noted, and the call goes on.
SignalNoted(p) ==
  /\ call[p] \in Active /\ Fault(p)
  /\ signalled' = signalled \cup {p} /\ interrupted' = interrupted \cup {p}
  /\ UNCHANGED <<windows, call, guard, job, writers, exited, verdict>>

\* onSigint, onSigterm and onAbort.  Output past its limit aborts the call of
\* the runner and looks the same.
Signal(p) ==
  /\ call[p] \in Active \cup {"cleanup"} /\ Fault(p)
  /\ signalled' = signalled \cup {p}
  /\ IF call[p] = "cleanup"
     THEN UNCHANGED <<call, verdict, interrupted>>
     ELSE Finalize(p, "interrupted") /\ interrupted' = interrupted \cup {p}
  /\ UNCHANGED <<windows, guard, job, writers, exited>>

\* The streams close only when the guard and all that inherited them are gone.
Close(p) ==
  /\ call[p] \in Active /\ guard[p] = "dead" /\ writers[p] = {}
  /\ Finalize(p, "tree")
  /\ UNCHANGED <<windows, guard, job, writers, exited, signalled, interrupted, faults>>

\* Mutant: a command that exited with zero is taken at its word.
CleanupTrusts(p) ==
  /\ call[p] = "cleanup" /\ job[p] # "pending"
  /\ Enter(p, "settled")
  /\ UNCHANGED <<windows, guard, job, writers, exited, verdict, signalled, interrupted, faults>>

\* A POSIX scope must be observed with its guard alive, a Windows tree too
\* unless a Job Object holds it.  A guard that never had a pid needs nothing.
Observable(p) == guard[p] \in {"none", "live"} \/ job[p] = "made"

\* cleanup: a pending Job Object is awaited, then the tree is terminated and
\* seen to be gone, and the call settles.
Cleanup(p) ==
  /\ call[p] = "cleanup" /\ job[p] # "pending"
  /\ Enter(p, "settled")
  /\ \/ /\ Observable(p)
        /\ writers' = [writers EXCEPT ![p] = {}] /\ guard' = [guard EXCEPT ![p] = "none"]
        /\ UNCHANGED <<verdict, faults>>
     \/ /\ IF Observable(p) THEN Fault(p) ELSE UNCHANGED faults
        /\ verdict' = [verdict EXCEPT ![p] = "tree"] /\ UNCHANGED <<writers, guard>>
  /\ UNCHANGED <<windows, job, exited, signalled, interrupted>>

-----------------------------------------------------------------------------
(* The processes below. *)

\* The command leaves a process behind that will outlive it.
Daemonize(p) ==
  /\ "command" \in writers[p] /\ "daemon" \notin writers[p] /\ Fault(p)
  /\ writers' = [writers EXCEPT ![p] = @ \cup {"daemon"}]
  /\ UNCHANGED <<windows, call, guard, job, exited, verdict, signalled, interrupted>>

\* The command exits; only a live guard can say how.
CommandExits(p) ==
  /\ "command" \in writers[p]
  /\ writers' = [writers EXCEPT ![p] = @ \ {"command"}]
  /\ \/ guard[p] = "live" /\ exited' = [exited EXCEPT ![p] = "zero"] /\ UNCHANGED faults
     \/ guard[p] = "live" /\ exited' = [exited EXCEPT ![p] = "other"] /\ Fault(p)
     \/ guard[p] # "live" /\ UNCHANGED <<exited, faults>>
  /\ UNCHANGED <<windows, call, guard, job, verdict, signalled, interrupted>>

DaemonExits(p) ==
  /\ "daemon" \in writers[p]
  /\ writers' = [writers EXCEPT ![p] = @ \ {"daemon"}]
  /\ UNCHANGED <<windows, call, guard, job, exited, verdict, signalled, interrupted, faults>>

GuardDies(p) ==
  /\ guard[p] = "live" /\ Fault(p)
  /\ guard' = [guard EXCEPT ![p] = "dead"]
  /\ UNCHANGED <<windows, call, job, writers, exited, verdict, signalled, interrupted>>

\* The callbacks that are bound to come; a guard need not become ready.
Callback(p) == JobResolves(p) \/ Complete(p) \/ Timeout(p) \/ Close(p) \/ Cleanup(p)

SupervisorStep(p) ==
  \/ Callback(p) \/ GuardReady(p) \/ Signal(p)
  \/ Daemonize(p) \/ CommandExits(p) \/ DaemonExits(p) \/ GuardDies(p)
=============================================================================
