------------------------------ MODULE JobQueue ------------------------------
(***************************************************************************)
(* The job queue of a generated PostgreSQL application: the table of runs  *)
(* (templates/adapters/jobs/postgres.ts), the service over it              *)
(* (templates/services/jobs/service.ts) and the worker loop                *)
(* (templates/adapters/jobs/worker.ts), at most one worker per host.       *)
(*                                                                         *)
(* One step is one statement or transaction of the database, or the end of *)
(* a handler.  Every change of a leased run is a compare and swap on the   *)
(* lease token.  Each claim of a run has a token of its own and counts an  *)
(* attempt, so the pair of run and attempt stands for the token.           *)
(*                                                                         *)
(* A lease that some host may see as expired is ripe.  The predicates      *)
(* compare it with the clock of the host that asks, so the worker of a     *)
(* ripe lease may find it still valid.                                     *)
(***************************************************************************)
EXTENDS Naturals, FiniteSets

CONSTANTS
  Request,      \* the runs users enqueue
  Schedule,     \* the schedules; a schedule names its run for its due instant
  Host,         \* the hosts
  MaxAttempts,  \* job_runs.max_attempts of each run
  MaxFaults     \* bound: statements that fail and processes that are killed

Run == Request \cup Schedule
Task == Run \X Nat
NoTask == <<>>

ASSUME JobAssumption ==
  /\ Request \cap Schedule = {}
  /\ MaxAttempts \in [Run -> Nat \ {0}]
  /\ MaxFaults \in Nat

Final == {"succeeded", "failed", "cancelled"}

VARIABLES
  state,        \* the state of each run, or "absent"
  attempt,      \* how often it was claimed
  cancel,       \* the runs whose cancellation was requested
  ripe,         \* the running runs whose lease may be seen as expired
  results,      \* the committed results: pairs of run and attempt
  wpc,          \* where each worker is
  task,         \* the run and attempt a worker executes
  lost,         \* the workers whose heartbeat failed during the handler
  listed,       \* the expired leases a worker has listed and not yet recovered
  stopping,     \* the hosts whose processes were told to end
  faults        \* how many faults have happened

runs == <<state, attempt, cancel, ripe, results>>
worker == <<wpc, task, lost, listed>>

Label == {"off", "list", "recover", "loop", "run", "final", "complete", "ack",
          "fail", "failAck", "failSettle"}

QueueTypeOK ==
  /\ state \in [Run -> {"absent", "queued", "running"} \cup Final]
  /\ attempt \in [Run -> Nat] /\ \A r \in Run : attempt[r] <= MaxAttempts[r]
  /\ cancel \subseteq Request /\ ripe \subseteq Run /\ results \subseteq Task
  /\ wpc \in [Host -> Label] /\ task \in [Host -> Task \cup {NoTask}]
  /\ lost \subseteq Host /\ stopping \subseteq Host
  /\ listed \in [Host -> SUBSET Task]
  /\ faults \in 0 .. MaxFaults

QueueInit ==
  /\ state = [r \in Run |-> "absent"] /\ attempt = [r \in Run |-> 0]
  /\ cancel = {} /\ ripe = {} /\ results = {}
  /\ wpc = [h \in Host |-> "off"] /\ task = [h \in Host |-> NoTask]
  /\ lost = {} /\ listed = [h \in Host |-> {}]
  /\ stopping = {} /\ faults = 0

Fault == faults < MaxFaults /\ faults' = faults + 1

-----------------------------------------------------------------------------
(* The table of runs. *)

\* A new state for a run whose lease is given up.
Settle(r, s) == state' = [state EXCEPT ![r] = s] /\ ripe' = ripe \ {r}

\* Mutant: the state is set without looking at the cancellation.
Regardless(r, s) == s

\* A requested cancellation takes precedence in every statement that settles.
Unless(r, s) == IF r \in cancel THEN "cancelled" ELSE s

\* Mutant: the row is found by its run, whoever leases it.
LeasedByAnybody(e) == state[e[1]] = "running"

\* The lease of worker h is the row's, and the row's is no other worker's.
Leased(e) == state[e[1]] = "running" /\ attempt[e[1]] = e[2]

\* What activeLease may answer to worker h: it holds, or it is lost.
Holds(h) == Leased(task[h])
MayBeLost(h) == ~Leased(task[h]) \/ task[h][1] \in ripe

\* service.enqueue
Enqueue(r) ==
  /\ r \in Request /\ state[r] = "absent"
  /\ state' = [state EXCEPT ![r] = "queued"]
  /\ UNCHANGED <<attempt, cancel, ripe, results, worker, stopping, faults>>

\* requestCancellationOwned: a queued run is cancelled, a running one marked.
Cancel(r) ==
  /\ r \in Request /\ state[r] \in {"queued", "running"} /\ r \notin cancel
  /\ cancel' = cancel \cup {r}
  /\ state' = [state EXCEPT ![r] = IF @ = "queued" THEN "cancelled" ELSE @]
  /\ UNCHANGED <<attempt, ripe, results, worker, stopping, faults>>

\* Time passes: leaseExpiresAt.
Ripen(r) ==
  /\ state[r] = "running" /\ r \notin ripe
  /\ ripe' = ripe \cup {r}
  /\ UNCHANGED <<state, attempt, cancel, results, worker, stopping, faults>>

-----------------------------------------------------------------------------
(* The worker. *)

Go(h, label) == wpc' = [wpc EXCEPT ![h] = label]

\* execute is over: the loop goes on, or the process ends when told to.
Leave(h) ==
  /\ Go(h, "loop")
  /\ task' = [task EXCEPT ![h] = NoTask]
  /\ lost' = lost \ {h}

\* A worker lists the expired leases when it starts and every minute.
List(h) ==
  /\ \/ wpc[h] = "list"
     \/ wpc[h] = "loop" /\ h \notin stopping /\ ripe # {}
  /\ listed' = [listed EXCEPT ![h] = {<<r, attempt[r]>> : r \in ripe}]
  /\ Go(h, "recover")
  /\ UNCHANGED <<runs, task, lost, stopping, faults>>

\* Mutant: recovery compares the state of the run and not its lease.
RecoverAny(h) ==
  /\ wpc[h] = "recover"
  /\ \/ \E e \in listed[h] :
          /\ listed' = [listed EXCEPT ![h] = @ \ {e}]
          /\ IF state[e[1]] = "running"
             THEN Settle(e[1], Unless(e[1],
                    IF e[2] >= MaxAttempts[e[1]] THEN "failed" ELSE "queued"))
             ELSE UNCHANGED <<state, ripe>>
          /\ UNCHANGED wpc
     \/ listed[h] = {} /\ Go(h, "loop") /\ UNCHANGED <<state, ripe, listed>>
  /\ UNCHANGED <<attempt, cancel, results, task, lost, stopping, faults>>

\* recoverExpiredLease: token and expiry are still those listed.  A renewed
\* lease has left the list (Renew); one settled meanwhile has another token.
Recover(h) ==
  /\ wpc[h] = "recover"
  /\ \/ \E e \in listed[h] :
          /\ listed' = [listed EXCEPT ![h] = @ \ {e}]
          /\ IF Leased(e)
             THEN Settle(e[1], Unless(e[1],
                    IF e[2] >= MaxAttempts[e[1]] THEN "failed" ELSE "queued"))
             ELSE UNCHANGED <<state, ripe>>
          /\ UNCHANGED wpc
     \/ listed[h] = {} /\ Go(h, "loop") /\ UNCHANGED <<state, ripe, listed>>
  /\ UNCHANGED <<attempt, cancel, results, task, lost, stopping, faults>>

\* claimNextRun; the answer may be lost, and then the worker ends.
Claim(h) ==
  /\ wpc[h] = "loop" /\ h \notin stopping
  /\ \E r \in Run :
       /\ state[r] = "queued" /\ r \notin cancel
       /\ state' = [state EXCEPT ![r] = "running"]
       /\ attempt' = [attempt EXCEPT ![r] = @ + 1]
       /\ \/ /\ Go(h, "run") /\ task' = [task EXCEPT ![h] = <<r, attempt'[r]>>]
             /\ UNCHANGED <<faults, stopping>>
          \/ /\ Go(h, "off") /\ UNCHANGED task
             /\ Fault /\ stopping' = stopping \cup {h}
  /\ UNCHANGED <<cancel, ripe, results, lost, listed>>

\* heartbeatRun renews the lease, which is then not the one anybody listed.
Renew(h) ==
  /\ ripe' = ripe \ {task[h][1]}
  /\ listed' = [g \in Host |-> listed[g] \ {task[h]}]

\* The heartbeat timer of execute: a failed heartbeat is kept for the end.
Beat(h) ==
  /\ wpc[h] = "run" /\ h \notin lost
  /\ \/ Holds(h) /\ Renew(h) /\ UNCHANGED <<lost, faults>>
     \/ MayBeLost(h) /\ lost' = lost \cup {h} /\ UNCHANGED <<ripe, listed, faults>>
     \/ Fault /\ lost' = lost \cup {h} /\ UNCHANGED <<ripe, listed>>
  /\ UNCHANGED <<state, attempt, cancel, results, wpc, task, stopping>>

\* The handler returns or throws.  What it returned is not committed when a
\* heartbeat failed or the process is told to end.
HandlerEnds(h) ==
  /\ wpc[h] = "run"
  /\ \/ h \notin lost \cup stopping /\ Go(h, "final")
     \/ Go(h, "fail")
  /\ UNCHANGED <<runs, task, lost, listed, stopping, faults>>

FinalBeat(h) ==
  /\ wpc[h] = "final"
  /\ \/ /\ Holds(h) /\ Renew(h) /\ UNCHANGED faults
        /\ Go(h, IF h \in stopping THEN "fail"
                 ELSE IF task[h][1] \in cancel THEN "ack" ELSE "complete")
     \/ /\ Go(h, "fail") /\ UNCHANGED <<ripe, listed>>
        /\ \/ MayBeLost(h) /\ UNCHANGED faults
           \/ Fault
  /\ UNCHANGED <<state, attempt, cancel, results, task, lost, stopping>>

\* Mutant: the result is written whether or not the lease still holds.
CompleteLate(h) ==
  /\ wpc[h] = "complete"
  /\ Settle(task[h][1], Unless(task[h][1], "succeeded"))
  /\ results' = results \cup {task[h]}
  /\ Leave(h)
  /\ UNCHANGED <<attempt, cancel, listed, stopping, faults>>

\* completeRunWithResult: the result and the state in one transaction.
Complete(h) ==
  /\ wpc[h] = "complete"
  /\ \/ /\ Holds(h)
        /\ Settle(task[h][1], Unless(task[h][1], "succeeded"))
        /\ results' = results \cup {task[h]}
        /\ \/ Leave(h) /\ UNCHANGED faults
           \/ Go(h, "fail") /\ Fault /\ UNCHANGED <<task, lost>>
     \/ /\ Go(h, "fail") /\ UNCHANGED <<state, ripe, results, task, lost>>
        /\ \/ MayBeLost(h) /\ UNCHANGED faults
           \/ Fault
  /\ UNCHANGED <<attempt, cancel, listed, stopping>>

\* acknowledgeCancellation; after the handler its failure leads to fail.
Acknowledge(h) ==
  /\ wpc[h] \in {"ack", "failAck"}
  /\ \/ /\ Holds(h) /\ Settle(task[h][1], "cancelled")
        /\ Leave(h) /\ UNCHANGED faults
     \/ /\ UNCHANGED <<state, ripe>>
        /\ \/ MayBeLost(h) /\ UNCHANGED faults
           \/ Fault
        /\ IF wpc[h] = "ack" THEN Go(h, "fail") /\ UNCHANGED <<task, lost>> ELSE Leave(h)
  /\ UNCHANGED <<attempt, cancel, results, listed, stopping>>

\* service.fail reads the leased run first ...
FailRead(h) ==
  /\ wpc[h] = "fail"
  /\ \/ /\ Holds(h)
        /\ Go(h, IF task[h][1] \in cancel THEN "failAck" ELSE "failSettle")
        /\ UNCHANGED <<task, lost, faults>>
     \/ MayBeLost(h) /\ Leave(h) /\ UNCHANGED faults
     \/ Fault /\ Leave(h)
  /\ UNCHANGED <<runs, listed, stopping>>

\* ... and settles it later, queued again while it has attempts left.
FailSettle(h) ==
  /\ wpc[h] = "failSettle"
  /\ \/ /\ Holds(h)
        /\ Settle(task[h][1], Unless(task[h][1],
             IF task[h][2] < MaxAttempts[task[h][1]] THEN "queued" ELSE "failed"))
        /\ UNCHANGED faults
     \/ MayBeLost(h) /\ UNCHANGED <<state, ripe, faults>>
     \/ Fault /\ UNCHANGED <<state, ripe>>
  /\ Leave(h)
  /\ UNCHANGED <<attempt, cancel, results, listed, stopping>>

\* A worker that was told to end leaves its loop; a failed statement of the
\* loop ends it, too, and its supervisor ends the host.
WorkerEnds(h) ==
  /\ \/ wpc[h] = "loop" /\ h \in stopping /\ UNCHANGED <<faults, stopping>>
     \/ wpc[h] \in {"list", "recover", "loop"} /\ Fault /\ stopping' = stopping \cup {h}
  /\ Go(h, "off")
  /\ listed' = [listed EXCEPT ![h] = {}]
  /\ UNCHANGED <<runs, task, lost>>

WorkerStep(h) ==
  \/ List(h) \/ Recover(h) \/ Claim(h) \/ HandlerEnds(h) \/ FinalBeat(h)
  \/ Complete(h) \/ Acknowledge(h) \/ FailRead(h) \/ FailSettle(h) \/ WorkerEnds(h)

QueueStep ==
  \/ \E r \in Run : Enqueue(r) \/ Cancel(r) \/ Ripen(r)
  \/ \E h \in Host : WorkerStep(h) \/ Beat(h)
=============================================================================
